---- MODULE Spec2Model ----
(***************************************************************************)
(* Durable-execution state layer of the workflow engine:                   *)
(*   - DaprStorage (runs / steps / events / indexes / cache mappings) on a *)
(*     key-value store offering get, batch save and delete;                *)
(*   - DaprQueue (visibility delay, concurrency limit, retry, DLQ) on an   *)
(*     at-least-once pub/sub bus;                                          *)
(*   - DaprStreamer (chunked streams, replay, live delivery).              *)
(* Every await on the store or the bus is a suspension point, so every     *)
(* operation is split into one action per store / bus access.              *)
(***************************************************************************)
EXTENDS Integers, Sequences, FiniteSets, Bags, TLC

VARIABLES
  store,      \* the key-value state store: key -> Absent | Val(value)
  pc,         \* per storage client process: where its current operation is
  loc,        \* per storage client process: the locals of that operation
  nOps,       \* number of storage operations started so far
  returned,   \* history: events createEvent returned, of runs not deleted since
  initialized, \* per storage client process: the initialized flag of its DaprStorage
  now,        \* Date.now(), in ms
  qTopic,     \* messages published to the queue topic and not yet consumed
  dlqTopic,   \* messages published to the queue's dead letter topic
  subs,       \* per DaprQueue instance: its InternalSubscription for the queue
  messageStore, \* per DaprQueue instance: messageStore (id -> message)
  timers,     \* per instance: pending setTimeout re-checks of handleMessage
  inProgress, \* per instance: handler invocations that have not settled
  nacking,    \* per instance: nack calls awaiting their publish
  sending,    \* per instance: send calls awaiting their publish
  nSent,      \* number of messages sent so far
  nDup,       \* number of duplicate deliveries the bus has made so far
  stats,      \* history, per message id: handler calls, requeues, DLQ publishes
  dropped,    \* history: ids dropped at the concurrency limit, not handled since
  streamState, \* the state store entries of the stream: metadata, counter, chunks
  handle,     \* the DaprWritableStream handle: open flag and sequence, and
              \* whether the streamer's streams map holds it
  wpc,        \* where the writer's current createStream / write / close is
  wloc,       \* the locals of that call
  streamTopic, \* messages published to the stream topic and not yet consumed
  registered, \* whether a callback is registered for the stream topic
  subscriptions, \* the subscriptions map entry of the stream (an array)
  streamSub,  \* per subscription: its InternalStreamSubscription
  spc,        \* per subscription: where its subscribe call is
  sloc,       \* per subscription: the locals of subscribe and getChunks
  delivered,  \* history, per subscription: the handler calls made, in order
  nWrites,    \* number of write calls started so far
  nCreates,   \* number of createStream calls started so far
  nStreamDup, \* number of duplicate deliveries on the stream topic so far
  thrown,     \* history: the error the writer's last finished call threw
  closeLog,   \* history, for the current handle: close calls and their effects
  closer      \* a close() call made while a write() on the handle is in
              \* progress: where it is, and the metadata it has read

storeVars == <<store, pc, loc, nOps, returned, initialized>>
queueVars == <<now, qTopic, dlqTopic, subs, messageStore, timers, inProgress,
               nacking, sending, nSent, nDup, stats, dropped>>
streamVars == <<streamState, handle, wpc, wloc, streamTopic, registered,
                subscriptions, streamSub, spc, sloc, delivered, nWrites,
                nCreates, nStreamDup, thrown, closeLog, closer>>

----------------------------------------------------------------------------
\* Bounds and small input sets

MaxOps == 3
MaxLimit == 3

Procs == {"p1", "p2"}
RunIds == {"r1", "r2"}
StepIds == {"s1", "s2"}
CacheKeys == {"k1", "k2"}
HookTokens == {"t1", "t2"}
EventSeqs == 1..(MaxOps + 1)

\* a step without cacheKey (undefined, falsy in the source)
NoCacheKey == "none"
NoStatus == "unchanged"
StatusUpdates == {NoStatus, "completed"}
RunStatusValues == {"pending", "running", "completed", "failed", "cancelled"}

----------------------------------------------------------------------------
\* Generic helpers

Max(S) == CHOOSE x \in S : \A y \in S : y <= x
Min(a, b) == IF a <= b THEN a ELSE b
Includes(seq, x) == \E i \in DOMAIN seq : seq[i] = x
Range(seq) == {seq[i] : i \in DOMAIN seq}

\* Array.prototype.filter((id) => id !== x)
RECURSIVE FilterOut(_, _)
FilterOut(seq, x) ==
  IF seq = <<>> THEN <<>>
  ELSE IF Head(seq) = x THEN FilterOut(Tail(seq), x)
       ELSE <<Head(seq)>> \o FilterOut(Tail(seq), x)

\* insert e into the sequence-sorted list, after every element with the
\* same sequence (Array.prototype.sort is stable)
RECURSIVE InsertBySequence(_, _)
InsertBySequence(sorted, e) ==
  IF sorted = <<>> THEN <<e>>
  ELSE IF Head(sorted).sequence <= e.sequence
       THEN <<Head(sorted)>> \o InsertBySequence(Tail(sorted), e)
       ELSE <<e>> \o sorted

\* events.sort((a, b) => a.sequence - b.sequence)
RECURSIVE SortBySequence(_)
SortBySequence(seq) ==
  IF seq = <<>> THEN <<>>
  ELSE InsertBySequence(SortBySequence(SubSeq(seq, 1, Len(seq) - 1)), seq[Len(seq)])

----------------------------------------------------------------------------
\* State keys (StateKeyPrefixes + buildKey)

RunKey(r) == <<"workflow:run", r>>
RunsIndexKey == <<"workflow:runs:index">>
StepKey(r, s) == <<"workflow:step", r, s>>
StepsIndexKey(r) == <<"workflow:steps:index", r>>
EventKey(r, e) == <<"workflow:event", r, e>>
EventsIndexKey(r) == <<"workflow:events:index", r>>
EventCounterKey(r) == <<"workflow:event:counter", r>>
CacheKey(k) == <<"workflow:cache", k>>
HookKey(token) == <<"workflow:hook", token>>

Keys ==
  {RunKey(r) : r \in RunIds} \cup {RunsIndexKey}
  \cup {StepKey(r, s) : r \in RunIds, s \in StepIds}
  \cup {StepsIndexKey(r) : r \in RunIds}
  \cup {EventKey(r, e) : r \in RunIds, e \in EventSeqs}
  \cup {EventsIndexKey(r) : r \in RunIds}
  \cup {EventCounterKey(r) : r \in RunIds}
  \cup {CacheKey(k) : k \in CacheKeys}
  \cup {HookKey(token) : token \in HookTokens}

\* what client.state.get returns: nothing, or the stored value
Absent == [has |-> FALSE]
Val(v) == [has |-> TRUE, v |-> v]

\* `${runId}-evt-${sequence}`: within a run the id is determined by the sequence
EventId(r, sequence) == sequence

\* StateOperation
Upsert(k, v) == [operation |-> "upsert", key |-> k, value |-> v]
Delete(k) == [operation |-> "delete", key |-> k]

\* client.state.save(store, [{key, value}, ...]): later entries win
StateSave(st, saves) ==
  [k \in Keys |->
     LET hits == {i \in DOMAIN saves : saves[i].key = k}
     IN IF hits = {} THEN st[k] ELSE Val(saves[Max(hits)].value)]

\* client.state.delete(store, key)
StateDelete(st, key) == [st EXCEPT ![key] = Absent]

\* private index readers: (result as string[]) ?? []
GetRunsIndex == IF store[RunsIndexKey].has THEN store[RunsIndexKey].v ELSE <<>>
GetStepsIndex(r) == IF store[StepsIndexKey(r)].has THEN store[StepsIndexKey(r)].v ELSE <<>>
GetEventsIndex(r) == IF store[EventsIndexKey(r)].has THEN store[EventsIndexKey(r)].v ELSE <<>>

Idle == [op |-> "idle"]

\* what the operation does after executeTransaction has returned
AfterTransaction(op) ==
  IF op = "createRun" THEN "createRun_init"
  ELSE IF op = "events.create" THEN "eventsCreate_switch"
  ELSE "idle"

\* hand a list of StateOperations to executeTransaction
BeginTransaction(p, locals, operations) ==
  /\ pc' = [pc EXCEPT ![p] = "tx_save"]
  /\ loc' = [loc EXCEPT ![p] = [locals EXCEPT !.operations = operations]]

Finish(p) ==
  /\ pc' = [pc EXCEPT ![p] = "idle"]
  /\ loc' = [loc EXCEPT ![p] = Idle]

CanStart(p) == pc[p] = "idle" /\ nOps < MaxOps

\* throw new Error(...): the call is about to reject with the error
Reject(p, locals, error) ==
  /\ pc' = [pc EXCEPT ![p] = "throw"]
  /\ loc' = [loc EXCEPT ![p] = [locals EXCEPT !.error = error]]

\* the rejection reaches the caller
Throw(p) ==
  /\ pc[p] = "throw"
  /\ Finish(p)
  /\ UNCHANGED <<store, nOps>>

----------------------------------------------------------------------------
\* executeTransaction: all upserts in one save, then the deletes one by one

SavesOf(operations) ==
  SelectSeq(operations, LAMBDA o : o.operation = "upsert")
DeletesOf(operations) ==
  SelectSeq(operations, LAMBDA o : o.operation = "delete")

TxSave(p) ==
  /\ pc[p] = "tx_save"
  /\ LET saves == SavesOf(loc[p].operations)
         deletes == DeletesOf(loc[p].operations)
     IN /\ store' = IF saves # <<>> THEN StateSave(store, saves) ELSE store
        /\ IF deletes # <<>>
           THEN /\ pc' = [pc EXCEPT ![p] = "tx_delete"]
                /\ loc' = [loc EXCEPT ![p].operations = deletes]
           ELSE IF AfterTransaction(loc[p].op) = "idle"
                THEN Finish(p)
                ELSE /\ pc' = [pc EXCEPT ![p] = AfterTransaction(loc[p].op)]
                     /\ loc' = loc
  /\ UNCHANGED nOps

TxDelete(p) ==
  /\ pc[p] = "tx_delete"
  /\ store' = StateDelete(store, Head(loc[p].operations).key)
  /\ IF Tail(loc[p].operations) # <<>>
     THEN /\ loc' = [loc EXCEPT ![p].operations = Tail(loc[p].operations)]
          /\ pc' = pc
     ELSE IF AfterTransaction(loc[p].op) = "idle"
          THEN Finish(p)
          ELSE /\ pc' = [pc EXCEPT ![p] = AfterTransaction(loc[p].op)]
               /\ loc' = loc
  /\ UNCHANGED nOps

----------------------------------------------------------------------------
\* Run operations

\* the transaction of createRun that appends to the index without looking
CreateRunOperationsAlwaysAppend(r, run, currentIndex) ==
  <<Upsert(RunKey(r), run)>>
  \o <<Upsert(RunsIndexKey, Append(currentIndex, r))>>

\* createRun up to its first suspension after the index read
CreateRunOperations(r, run, currentIndex) ==
  <<Upsert(RunKey(r), run)>>
  \o (IF ~Includes(currentIndex, r)
      THEN <<Upsert(RunsIndexKey, Append(currentIndex, r))>>
      ELSE <<>>)

\* createRun(run) for a run record of any shape
CreateRunWith(p, run) ==
  /\ CanStart(p)
  /\ BeginTransaction(p, [op |-> "createRun", run |-> run.id, operations |-> <<>>],
                      CreateRunOperations(run.id, run, GetRunsIndex))
  /\ nOps' = nOps + 1
  /\ UNCHANGED store

\* createRun of a run of which only id and status are looked at
CreateRun(p, r) == CreateRunWith(p, [id |-> r, status |-> "pending"])

\* createRun: initialise the per-run indexes and the event counter
CreateRunInit(p) ==
  /\ pc[p] = "createRun_init"
  /\ LET r == loc[p].run
     IN store' = StateSave(store,
                   << [key |-> StepsIndexKey(r), value |-> <<>>],
                      [key |-> EventsIndexKey(r), value |-> <<>>],
                      [key |-> EventCounterKey(r), value |-> 0] >>)
  /\ Finish(p)
  /\ UNCHANGED nOps

\* getRun(runId)
GetRun(r) == store[RunKey(r)]

\* new Date().toISOString() at time t (ms): the text orders as the pair of
\* its seconds and milliseconds parts
ToISOString(t) == <<t \div 1000, t % 1000>>

\* the order of two ISO timestamps compared as text
IsoLeq(a, b) == a[1] < b[1] \/ (a[1] = b[1] /\ a[2] <= b[2])

\* the merge with the spread operands swapped
MergeRunExistingWins(existing, updates, updatedAt) ==
  [f \in DOMAIN existing \cup DOMAIN updates \cup {"updatedAt"} |->
     IF f = "updatedAt" THEN updatedAt
     ELSE IF f \in DOMAIN existing THEN existing[f]
     ELSE updates[f]]

\* { ...existing, ...updates, updatedAt }
MergeRun(existing, updates, updatedAt) ==
  [f \in DOMAIN existing \cup DOMAIN updates \cup {"updatedAt"} |->
     IF f = "updatedAt" THEN updatedAt
     ELSE IF f \in DOMAIN updates THEN updates[f]
     ELSE existing[f]]

\* updateRun(runId, updates): getRun, then throw or go on to the save
UpdateRunWith(p, r, updates) ==
  /\ CanStart(p)
  /\ LET existing == GetRun(r)
     IN IF ~existing.has
        THEN Reject(p, [op |-> "updateRun", run |-> r, error |-> <<>>],
                    <<"Run not found", r>>)
        ELSE /\ pc' = [pc EXCEPT ![p] = "updateRun_save"]
             /\ loc' = [loc EXCEPT ![p] =
                          [op |-> "updateRun", run |-> r, updates |-> updates,
                           updated |-> MergeRun(existing.v, updates,
                                                ToISOString(now)),
                           operations |-> <<>>]]
  /\ nOps' = nOps + 1
  /\ UNCHANGED store

\* updateRun(runId, {status})
UpdateRun(p, r, updStatus) == UpdateRunWith(p, r, [status |-> updStatus])

\* updateRun: save { ...existing, ...updates }
UpdateRunSave(p) ==
  /\ pc[p] = "updateRun_save"
  /\ store' = StateSave(store, <<[key |-> RunKey(loc[p].run),
                                  value |-> loc[p].updated]>>)
  /\ Finish(p)
  /\ UNCHANGED nOps

\* String(n) of a number n >= 0, as its decimal digits
RECURSIVE CursorString(_)
CursorString(n) == IF n < 10 THEN <<n>> ELSE Append(CursorString(n \div 10), n % 10)

\* parseInt(digits, 10)
RECURSIVE ParseInt(_)
ParseInt(digits) ==
  IF Len(digits) = 1 THEN digits[1]
  ELSE 10 * ParseInt(SubSeq(digits, 1, Len(digits) - 1)) + digits[Len(digits)]

\* a cursor that is not given, a nextCursor that is not returned; a status
\* filter that is not given is NoStatus
Undefined == <<>>

\* listRuns: the loop over the index entries from the cursor on
RECURSIVE ListRunsLoop(_, _, _, _)
ListRunsLoop(runIds, runs, limit, status) ==
  IF runIds = <<>> \/ Len(runs) >= limit THEN runs
  ELSE LET run == GetRun(Head(runIds))
       IN IF ~run.has THEN ListRunsLoop(Tail(runIds), runs, limit, status)
          ELSE IF status # NoStatus /\ run.v.status # status
          THEN ListRunsLoop(Tail(runIds), runs, limit, status)
          ELSE ListRunsLoop(Tail(runIds), Append(runs, run.v), limit, status)

\* listRuns({limit, cursor, status}) on a store nobody else is writing
ListRuns(limit, cursorOption, status) ==
  LET cursor == IF cursorOption # Undefined THEN ParseInt(cursorOption) ELSE 0
      allRunIds == GetRunsIndex
      runIds == SubSeq(allRunIds, cursor + 1, Len(allRunIds))
      hasMore == cursor + limit < Len(allRunIds)
  IN [items |-> ListRunsLoop(runIds, <<>>, limit, status),
      nextCursor |-> IF hasMore THEN CursorString(cursor + limit) ELSE Undefined,
      totalCount |-> Len(allRunIds)]

\* the pages of listRuns from a cursor on, following nextCursor
RECURSIVE PagesFrom(_, _, _)
PagesFrom(limit, cursorOption, status) ==
  LET page == ListRuns(limit, cursorOption, status)
  IN page.items \o (IF page.nextCursor = Undefined THEN <<>>
                    ELSE PagesFrom(limit, page.nextCursor, status))

\* deleteRun, listSteps: read the steps index
DeleteRun(p, r) ==
  /\ CanStart(p)
  /\ LET stepIds == GetStepsIndex(r)
     IN /\ loc' = [loc EXCEPT ![p] =
                     [op |-> "deleteRun", run |-> r, stepIds |-> stepIds,
                      steps |-> <<>>, eventIds |-> <<>>, events |-> <<>>,
                      operations |-> <<>>]]
        /\ pc' = [pc EXCEPT ![p] =
                     IF stepIds # <<>> THEN "listSteps" ELSE "getEvents_index"]
  /\ nOps' = nOps + 1
  /\ UNCHANGED store

\* listSteps: getStep for the next indexed id
ListStepsGet(p) ==
  /\ pc[p] = "listSteps"
  /\ LET r == loc[p].run
         got == store[StepKey(r, Head(loc[p].stepIds))]
         steps == IF got.has THEN Append(loc[p].steps, got.v) ELSE loc[p].steps
     IN /\ loc' = [loc EXCEPT ![p].stepIds = Tail(loc[p].stepIds),
                              ![p].steps = steps]
        /\ pc' = [pc EXCEPT ![p] =
                     IF Tail(loc[p].stepIds) # <<>> THEN "listSteps"
                     ELSE "getEvents_index"]
  /\ UNCHANGED <<store, nOps>>

\* getEvents: read the events index
GetEventsReadIndex(p) ==
  /\ pc[p] = "getEvents_index"
  /\ LET eventIds == GetEventsIndex(loc[p].run)
     IN /\ loc' = [loc EXCEPT ![p].eventIds = eventIds]
        /\ pc' = [pc EXCEPT ![p] =
                     IF eventIds # <<>> THEN "getEvents_get"
                     ELSE "deleteRun_index"]
  /\ UNCHANGED <<store, nOps>>

\* getEvents: read the next indexed event; sort when all are read
GetEventsGet(p) ==
  /\ pc[p] = "getEvents_get"
  /\ LET r == loc[p].run
         got == store[EventKey(r, Head(loc[p].eventIds))]
         events == IF got.has THEN Append(loc[p].events, got.v) ELSE loc[p].events
         last == Tail(loc[p].eventIds) = <<>>
     IN /\ loc' = [loc EXCEPT ![p].eventIds = Tail(loc[p].eventIds),
                              ![p].events = IF last THEN SortBySequence(events)
                                            ELSE events]
        /\ pc' = [pc EXCEPT ![p] =
                     IF last THEN "deleteRun_index" ELSE "getEvents_get"]
  /\ UNCHANGED <<store, nOps>>

RECURSIVE StepDeletes(_, _)
StepDeletes(r, steps) ==
  IF steps = <<>> THEN <<>>
  ELSE <<Delete(StepKey(r, Head(steps).id))>>
       \o (IF Head(steps).cacheKey # NoCacheKey
           THEN <<Delete(CacheKey(Head(steps).cacheKey))>> ELSE <<>>)
       \o StepDeletes(r, Tail(steps))

EventDeletes(r, events) ==
  [i \in DOMAIN events |-> Delete(EventKey(r, events[i].id))]

DeleteRunOperations(r, steps, events, currentIndex) ==
  << Delete(RunKey(r)), Delete(StepsIndexKey(r)),
     Delete(EventsIndexKey(r)), Delete(EventCounterKey(r)) >>
  \o StepDeletes(r, steps)
  \o EventDeletes(r, events)
  \o <<Upsert(RunsIndexKey, FilterOut(currentIndex, r))>>

\* deleteRun: read the runs index and start the transaction
DeleteRunReadIndex(p) ==
  /\ pc[p] = "deleteRun_index"
  /\ BeginTransaction(p, loc[p],
       DeleteRunOperations(loc[p].run, loc[p].steps, loc[p].events, GetRunsIndex))
  /\ UNCHANGED <<store, nOps>>

----------------------------------------------------------------------------
\* Step operations

CreateStepOperations(step, currentIndex) ==
  <<Upsert(StepKey(step.runId, step.id), step)>>
  \o (IF ~Includes(currentIndex, step.id)
      THEN <<Upsert(StepsIndexKey(step.runId), Append(currentIndex, step.id))>>
      ELSE <<>>)
  \o (IF step.cacheKey # NoCacheKey
      THEN <<Upsert(CacheKey(step.cacheKey),
                    [runId |-> step.runId, stepId |-> step.id])>>
      ELSE <<>>)

CreateStep(p, r, s, ck) ==
  /\ CanStart(p)
  /\ LET step == [id |-> s, runId |-> r, status |-> "pending", cacheKey |-> ck]
     IN BeginTransaction(p, [op |-> "createStep", run |-> r, step |-> step,
                             operations |-> <<>>],
                         CreateStepOperations(step, GetStepsIndex(r)))
  /\ nOps' = nOps + 1
  /\ UNCHANGED store

\* { ...existing, ...updates }: updates.cacheKey is NoCacheKey and
\* updates.status is NoStatus when the update does not name the field
MergeStep(existing, updCacheKey, updStatus) ==
  [existing EXCEPT
     !.cacheKey = IF updCacheKey # NoCacheKey THEN updCacheKey ELSE existing.cacheKey,
     !.status = IF updStatus # NoStatus THEN updStatus ELSE existing.status]

\* the transaction of updateStep that leaves the old cache mapping in place
UpdateStepOperationsKeepOld(r, s, existing, updCacheKey, updStatus) ==
  <<Upsert(StepKey(r, s), MergeStep(existing, updCacheKey, updStatus))>>
  \o (IF updCacheKey # NoCacheKey /\ updCacheKey # existing.cacheKey
      THEN <<Upsert(CacheKey(updCacheKey), [runId |-> r, stepId |-> s])>>
      ELSE <<>>)

UpdateStepOperations(r, s, existing, updCacheKey, updStatus) ==
  <<Upsert(StepKey(r, s), MergeStep(existing, updCacheKey, updStatus))>>
  \o (IF updCacheKey # NoCacheKey /\ updCacheKey # existing.cacheKey
      THEN (IF existing.cacheKey # NoCacheKey
            THEN <<Delete(CacheKey(existing.cacheKey))>> ELSE <<>>)
           \o <<Upsert(CacheKey(updCacheKey), [runId |-> r, stepId |-> s])>>
      ELSE <<>>)

\* updateStep: getStep, then throw or start the transaction
UpdateStep(p, r, s, updCacheKey, updStatus) ==
  /\ CanStart(p)
  /\ LET existing == store[StepKey(r, s)]
     IN IF ~existing.has
        THEN Reject(p, [op |-> "updateStep", run |-> r, stepId |-> s,
                        error |-> <<>>],
                    <<"Step not found", r, s>>)
        ELSE BeginTransaction(p, [op |-> "updateStep", run |-> r, stepId |-> s,
                                  existing |-> existing.v,
                                  updates |-> [cacheKey |-> updCacheKey,
                                               status |-> updStatus],
                                  operations |-> <<>>],
                              UpdateStepOperations(r, s, existing.v, updCacheKey,
                                                   updStatus))
  /\ nOps' = nOps + 1
  /\ UNCHANGED store

\* deleteStep: getStep, return when there is none
DeleteStep(p, r, s) ==
  /\ CanStart(p)
  /\ LET step == store[StepKey(r, s)]
     IN IF ~step.has
        THEN UNCHANGED <<pc, loc>>
        ELSE /\ pc' = [pc EXCEPT ![p] = "deleteStep_index"]
             /\ loc' = [loc EXCEPT ![p] =
                          [op |-> "deleteStep", run |-> r, step |-> step.v,
                           operations |-> <<>>]]
  /\ nOps' = nOps + 1
  /\ UNCHANGED store

DeleteStepOperations(r, step, currentIndex) ==
  << Delete(StepKey(r, step.id)),
     Upsert(StepsIndexKey(r), FilterOut(currentIndex, step.id)) >>
  \o (IF step.cacheKey # NoCacheKey
      THEN <<Delete(CacheKey(step.cacheKey))>> ELSE <<>>)

\* deleteStep: read the steps index and start the transaction
DeleteStepReadIndex(p) ==
  /\ pc[p] = "deleteStep_index"
  /\ BeginTransaction(p, loc[p],
       DeleteStepOperations(loc[p].run, loc[p].step, GetStepsIndex(loc[p].run)))
  /\ UNCHANGED <<store, nOps>>

\* listSteps(runId) on a store nobody else is writing
RECURSIVE StepsOf(_, _)
StepsOf(r, stepIds) ==
  IF stepIds = <<>> THEN <<>>
  ELSE (IF store[StepKey(r, Head(stepIds))].has
        THEN <<store[StepKey(r, Head(stepIds))].v>> ELSE <<>>)
       \o StepsOf(r, Tail(stepIds))

ListSteps(r) == StepsOf(r, GetStepsIndex(r))

\* getStepByCacheKey(cacheKey) on a store nobody else is writing
GetStepByCacheKey(k) ==
  IF ~store[CacheKey(k)].has THEN Absent
  ELSE store[StepKey(store[CacheKey(k)].v.runId, store[CacheKey(k)].v.stepId)]

----------------------------------------------------------------------------
\* Event operations

\* createEvent: read the counter and pick the sequence
CreateEvent(p, r) ==
  /\ CanStart(p)
  /\ LET counterResult == store[EventCounterKey(r)]
         currentCounter == IF counterResult.has THEN counterResult.v ELSE 0
     IN loc' = [loc EXCEPT ![p] =
                  [op |-> "createEvent", run |-> r, sequence |-> currentCounter + 1,
                   data |-> nOps + 1, operations |-> <<>>]]
  /\ pc' = [pc EXCEPT ![p] = "createEvent_index"]
  /\ nOps' = nOps + 1
  /\ UNCHANGED store

\* the counter saved without the increment
CreateEventOperationsStaleCounter(fullEvent, currentIndex) ==
  << Upsert(EventKey(fullEvent.runId, fullEvent.id), fullEvent),
     Upsert(EventCounterKey(fullEvent.runId), fullEvent.sequence - 1),
     Upsert(EventsIndexKey(fullEvent.runId), Append(currentIndex, fullEvent.id)) >>

CreateEventOperations(fullEvent, currentIndex) ==
  << Upsert(EventKey(fullEvent.runId, fullEvent.id), fullEvent),
     Upsert(EventCounterKey(fullEvent.runId), fullEvent.sequence),
     Upsert(EventsIndexKey(fullEvent.runId), Append(currentIndex, fullEvent.id)) >>

\* createEvent: read the events index and start the transaction
CreateEventReadIndex(p) ==
  /\ pc[p] = "createEvent_index"
  /\ LET r == loc[p].run
         fullEvent == [id |-> EventId(r, loc[p].sequence), runId |-> r,
                       sequence |-> loc[p].sequence, data |-> loc[p].data]
     IN BeginTransaction(p, loc[p],
                         CreateEventOperations(fullEvent, GetEventsIndex(r)))
  /\ UNCHANGED <<store, nOps>>

\* getEvents(runId) on a store nobody else is writing
RECURSIVE EventsOf(_, _)
EventsOf(r, eventIds) ==
  IF eventIds = <<>> THEN <<>>
  ELSE (IF store[EventKey(r, Head(eventIds))].has
        THEN <<store[EventKey(r, Head(eventIds))].v>> ELSE <<>>)
       \o EventsOf(r, Tail(eventIds))

GetEvents(r) == SortBySequence(EventsOf(r, GetEventsIndex(r)))

\* getEvents(runId, afterSequence)
GetEventsAfter(r, afterSequence) ==
  SortBySequence(SelectSeq(EventsOf(r, GetEventsIndex(r)),
                           LAMBDA event : event.sequence > afterSequence))

----------------------------------------------------------------------------
\* DaprQueue

MaxMsgs == 1
MaxDup == 2
MultiDup == 1
MaxTicks == 3

TickMs == 1000
BackoffBaseMs == 1000
BackoffCapMs == 30000
RecheckCapMs == 60000

Consumers == {"c1", "c2"}
Producer == "c1"
LoadMsgs == MaxMsgs + 1
MsgIds == 1..LoadMsgs
Delays == {0, 1000}
MaxAttemptsChoices == {1, 2}
ConcurrencyChoices == {1, 2}

BagAdd(B, e) == B (+) SetToBag({e})
BagRemove(B, e) == B (-) SetToBag({e})

RECURSIVE Pow2(_)
Pow2(n) == IF n = 0 THEN 1 ELSE 2 * Pow2(n - 1)

\* the backoff computed from the attempts before the increment
BackoffBeforeIncrement(attempts) ==
  Min(BackoffBaseMs * Pow2(attempts - 1), BackoffCapMs)

\* Math.min(1000 * Math.pow(2, message.attempts), 30000)
Backoff(attempts) == Min(BackoffBaseMs * Pow2(attempts), BackoffCapMs)

\* the visibility comparison turned around
NotYetVisibleFlipped(message, t) == message.visibleAt < t

\* message.visibleAt > now
NotYetVisible(message, t) == message.visibleAt > t

\* sub.processing.size >= sub.options.concurrency
AtCapacity(sub) == Cardinality(sub.processing) >= sub.concurrency

\* subscribe calls per instance
MaxSubscribes == 2

\* exists: the subscription is in the subscriptions map; registered: a topic
\* callback is registered with the Dapr server; handler: the number of the
\* subscribe call whose handler the map entry holds; handleActive: for every
\* subscribe call of the instance, the active flag of the internalSub its
\* returned Subscription closes over
NoSubscription ==
  [exists |-> FALSE, active |-> FALSE, concurrency |-> 1, autoAck |-> TRUE,
   processing |-> {}, registered |-> FALSE, handler |-> 0,
   handleActive |-> [h \in 1..MaxSubscribes |-> FALSE]]

NoStats == [maxAttempts |-> 0, invoked |-> 0, requeued |-> 0, dlq |-> 0, ok |-> 0]

InitQueue ==
  /\ now = 0
  /\ qTopic = {}
  /\ dlqTopic = {}
  /\ subs = [c \in Consumers |-> NoSubscription]
  /\ messageStore = [c \in Consumers |-> [i \in MsgIds |-> Absent]]
  /\ timers = [c \in Consumers |-> EmptyBag]
  /\ inProgress = [c \in Consumers |-> EmptyBag]
  /\ nacking = [c \in Consumers |-> EmptyBag]
  /\ sending = [c \in Consumers |-> EmptyBag]
  /\ nSent = 0
  /\ nDup = 0
  /\ stats = [i \in MsgIds |-> NoStats]
  /\ dropped = {}

\* send: build the message and publish it
Send(c, delayMs, maxAttempts) ==
  /\ LET message == [id |-> nSent + 1, visibleAt |-> now + delayMs,
                     attempts |-> 0, maxAttempts |-> maxAttempts]
     IN /\ qTopic' = qTopic \cup {message}
        /\ sending' = [sending EXCEPT ![c] = BagAdd(@, message)]
  /\ nSent' = nSent + 1
  /\ stats' = [stats EXCEPT ![nSent + 1].maxAttempts = maxAttempts]
  /\ UNCHANGED <<now, dlqTopic, subs, messageStore, timers, inProgress, nacking,
                 nDup, dropped>>

\* send: the publish has resolved; track the message
SendStore(c, message) ==
  /\ BagIn(message, sending[c])
  /\ sending' = [sending EXCEPT ![c] = BagRemove(@, message)]
  /\ messageStore' = [messageStore EXCEPT ![c][message.id] = Val(message)]
  /\ UNCHANGED <<now, qTopic, dlqTopic, subs, timers, inProgress, nacking,
                 nSent, nDup, stats, dropped>>

\* subscribe: register the subscription and the topic callback
Subscribe(c, concurrency) ==
  /\ ~subs[c].exists
  /\ subs[c].handler < MaxSubscribes
  /\ subs' = [subs EXCEPT ![c] =
                [exists |-> TRUE, active |-> TRUE, concurrency |-> concurrency,
                 autoAck |-> TRUE, processing |-> {}, registered |-> TRUE,
                 handler |-> subs[c].handler + 1,
                 handleActive |-> [subs[c].handleActive EXCEPT
                                     ![subs[c].handler + 1] = TRUE]]]
  /\ UNCHANGED <<now, qTopic, dlqTopic, messageStore, timers, inProgress,
                 nacking, sending, nSent, nDup, stats, dropped>>

\* unsubscribe() of the subscription in the map: the callback registered with
\* the Dapr server stays
Unsubscribe(c) ==
  /\ subs[c].exists
  /\ subs' = [subs EXCEPT ![c].active = FALSE, ![c].exists = FALSE,
                          ![c].handleActive[subs[c].handler] = FALSE]
  /\ UNCHANGED <<now, qTopic, dlqTopic, messageStore, timers, inProgress,
                 nacking, sending, nSent, nDup, stats, dropped>>

\* isActive() of the Subscription returned by the subscribe call numbered h
IsActive(c, h) == subs[c].handleActive[h]

\* handleMessage that does not look at the subscription's state
HandleMessageAlways(c, message, pending) ==
  IF NotYetVisible(message, now)
  THEN /\ timers' = [timers EXCEPT ![c] =
            BagAdd(pending,
                   [message |-> message,
                    fireAt |-> now + Min(message.visibleAt - now, RecheckCapMs)])]
       /\ UNCHANGED <<subs, messageStore, inProgress, stats, dropped>>
  ELSE /\ timers' = [timers EXCEPT ![c] = pending]
       /\ subs' = [subs EXCEPT ![c].processing = @ \cup {message.id}]
       /\ messageStore' = [messageStore EXCEPT ![c][message.id] = Val(message)]
       /\ inProgress' = [inProgress EXCEPT ![c] = BagAdd(@, message)]
       /\ stats' = [stats EXCEPT ![message.id].invoked = @ + 1]
       /\ dropped' = dropped \ {message.id}

\* handleMessage(subscriptionKey, message), up to the call of the handler;
\* pending are the instance's setTimeout callbacks that stay scheduled
HandleMessage(c, message, pending) ==
  IF ~subs[c].exists \/ ~subs[c].active
  THEN /\ timers' = [timers EXCEPT ![c] = pending]
       /\ UNCHANGED <<subs, messageStore, inProgress, stats, dropped>>
  ELSE IF NotYetVisible(message, now)
  THEN /\ timers' = [timers EXCEPT ![c] =
            BagAdd(pending,
                   [message |-> message,
                    fireAt |-> now + Min(message.visibleAt - now, RecheckCapMs)])]
       /\ UNCHANGED <<subs, messageStore, inProgress, stats, dropped>>
  ELSE IF AtCapacity(subs[c])
  THEN /\ timers' = [timers EXCEPT ![c] = pending]
       /\ dropped' = dropped \cup {message.id}
       /\ UNCHANGED <<subs, messageStore, inProgress, stats>>
  ELSE /\ timers' = [timers EXCEPT ![c] = pending]
       /\ subs' = [subs EXCEPT ![c].processing = @ \cup {message.id}]
       /\ messageStore' = [messageStore EXCEPT ![c][message.id] = Val(message)]
       /\ inProgress' = [inProgress EXCEPT ![c] = BagAdd(@, message)]
       /\ stats' = [stats EXCEPT ![message.id].invoked = @ + 1]
       /\ dropped' = dropped \ {message.id}

\* the bus calls the topic callback with a published message; a duplicate
\* delivery leaves the message on the bus to be delivered again
Deliver(c, message, duplicate) ==
  /\ message \in qTopic
  /\ subs[c].registered
  /\ IF duplicate
     THEN nDup' = nDup + 1 /\ qTopic' = qTopic
     ELSE nDup' = nDup /\ qTopic' = qTopic \ {message}
  /\ HandleMessage(c, message, timers[c])
  /\ UNCHANGED <<now, dlqTopic, nacking, sending, nSent>>

\* the setTimeout callback of a not yet visible message runs
TimerFire(c, timer) ==
  /\ BagIn(timer, timers[c])
  /\ now >= timer.fireAt
  /\ HandleMessage(c, timer.message, BagRemove(timers[c], timer))
  /\ UNCHANGED <<now, qTopic, dlqTopic, nacking, sending, nSent, nDup>>

\* ack(queueName, messageId)
Ack(c, id) ==
  /\ messageStore' = [messageStore EXCEPT ![c][id] = Absent]
  /\ subs' = IF subs[c].exists
             THEN [subs EXCEPT ![c].processing = @ \ {id}]
             ELSE subs

\* the handler's promise resolves: auto-acknowledge
HandlerReturn(c, message) ==
  /\ BagIn(message, inProgress[c])
  /\ inProgress' = [inProgress EXCEPT ![c] = BagRemove(@, message)]
  /\ IF subs[c].autoAck
     THEN Ack(c, message.id)
     ELSE UNCHANGED <<messageStore, subs>>
  /\ stats' = [stats EXCEPT ![message.id].ok = @ + 1]
  /\ UNCHANGED <<now, qTopic, dlqTopic, timers, nacking, sending, nSent, nDup,
                 dropped>>

\* nack(queueName, messageId, requeue), up to the await of its publish
Nack(c, id, requeue) ==
  IF ~messageStore[c][id].has
  THEN UNCHANGED <<subs, messageStore, qTopic, dlqTopic, nacking, stats, dropped>>
  ELSE LET message == messageStore[c][id].v
           attempts == message.attempts + 1
       IN /\ subs' = IF subs[c].exists
                     THEN [subs EXCEPT ![c].processing = @ \ {id}]
                     ELSE subs
          /\ nacking' = [nacking EXCEPT ![c] = BagAdd(@, id)]
          /\ IF requeue /\ attempts < message.maxAttempts
             THEN LET requeued == [message EXCEPT
                                     !.attempts = attempts,
                                     !.visibleAt = now + Backoff(attempts)]
                  IN /\ messageStore' = [messageStore EXCEPT ![c][id] = Val(requeued)]
                     /\ qTopic' = qTopic \cup {requeued}
                     /\ stats' = [stats EXCEPT ![id].requeued = @ + 1]
                     /\ UNCHANGED <<dlqTopic, dropped>>
             ELSE /\ messageStore' = [messageStore EXCEPT
                                        ![c][id] = Val([message EXCEPT !.attempts = attempts])]
                  /\ dlqTopic' = dlqTopic \cup
                       {[id |-> id, attempts |-> attempts, sentToDlqAt |-> now,
                         reason |-> IF requeue THEN "max_attempts_exceeded"
                                    ELSE "nack_no_requeue"]}
                  /\ stats' = [stats EXCEPT ![id].dlq = @ + 1]
                  /\ dropped' = dropped \ {id}
                  /\ UNCHANGED qTopic

\* the catch block calling nack without requeue
HandlerThrowNoRequeue(c, message) ==
  /\ BagIn(message, inProgress[c])
  /\ inProgress' = [inProgress EXCEPT ![c] = BagRemove(@, message)]
  /\ Nack(c, message.id, FALSE)
  /\ UNCHANGED <<now, timers, sending, nSent, nDup>>

\* the handler throws (or its promise rejects): nack with requeue
HandlerThrow(c, message) ==
  /\ BagIn(message, inProgress[c])
  /\ inProgress' = [inProgress EXCEPT ![c] = BagRemove(@, message)]
  /\ Nack(c, message.id, TRUE)
  /\ UNCHANGED <<now, timers, sending, nSent, nDup>>

\* nack: the publish has resolved; remove the message from the store
NackDelete(c, id) ==
  /\ BagIn(id, nacking[c])
  /\ nacking' = [nacking EXCEPT ![c] = BagRemove(@, id)]
  /\ messageStore' = [messageStore EXCEPT ![c][id] = Absent]
  /\ UNCHANGED <<now, qTopic, dlqTopic, subs, timers, inProgress, sending,
                 nSent, nDup, stats, dropped>>

\* something waits for a later time: a scheduled re-check that is not due,
\* or a published message that is not visible yet
WaitingForTime ==
  \/ \E c \in Consumers : \E timer \in BagToSet(timers[c]) : timer.fireAt > now
  \/ \E message \in qTopic : NotYetVisible(message, now)

\* time passes (a translation of all times changes nothing, so time is only
\* advanced while something waits for it)
Tick ==
  /\ now < MaxTicks * TickMs
  /\ WaitingForTime
  /\ now' = now + TickMs
  /\ UNCHANGED <<qTopic, dlqTopic, subs, messageStore, timers, inProgress,
                 nacking, sending, nSent, nDup, stats, dropped>>

\* maxAttempts values that let the backoff reach its cap
MaxRetryAttempts == 7
RetryAttemptsChoices == 1..MaxRetryAttempts

\* the handler itself calls nack(queueName, messageId, requeue) for the
\* message it was given, and returns when nack has
NackCall(c, message, requeue) ==
  /\ BagIn(message, inProgress[c])
  /\ messageStore[c][message.id].has
  /\ inProgress' = [inProgress EXCEPT ![c] = BagRemove(@, message)]
  /\ Nack(c, message.id, requeue)
  /\ UNCHANGED <<now, timers, sending, nSent, nDup>>

\* the times something waits for
Deadlines ==
  {timer.fireAt : timer \in
     {t \in UNION {BagToSet(timers[c]) : c \in Consumers} : t.fireAt > now}}
  \cup {message.visibleAt : message \in {m \in qTopic : NotYetVisible(m, now)}}

\* time passes until the earliest of them
Advance ==
  /\ Deadlines # {}
  /\ now' = CHOOSE d \in Deadlines : \A e \in Deadlines : d <= e
  /\ UNCHANGED <<qTopic, dlqTopic, subs, messageStore, timers, inProgress,
                 nacking, sending, nSent, nDup, stats, dropped>>

----------------------------------------------------------------------------
\* DaprStreamer and DaprWritableStream, for one stream id

MaxWrites == 2
MaxCreates == 2
MaxStreamDup == 1

StreamSubs == {"a", "b"}
ChunkSeqs == 1..MaxWrites
FromSequences == {0, 1}

\* buildStreamKey, buildChunkKey, buildCounterKey
StreamKey == <<"workflow:stream">>
ChunkKey(sequence) == <<"workflow:stream:chunks", sequence>>
CounterKey == <<"workflow:stream:counter">>

StreamKeys == {StreamKey, CounterKey} \cup {ChunkKey(n) : n \in ChunkSeqs}

NoHandle == [exists |-> FALSE, open |-> FALSE, sequence |-> 0, mapped |-> FALSE]
NoStreamSub == [active |-> FALSE, lastSequence |-> 0]
NoLocals == [fromSequence |-> 0, liveOnly |-> FALSE, chunkCount |-> 0,
             seq |-> 0, chunks |-> <<>>]
NoWriterLocals == [chunk |-> Absent, metadata |-> Absent, seq |-> 0,
                   shutdown |-> FALSE]

\* the errors createStream and write throw
NoError == "none"
AlreadyOpen == "already exists and is open"
StreamClosed == "is closed"

MaxCloses == 3
NoCloses == [calls |-> 0, saves |-> 0, sentinels |-> 0]
NoCloser == [pc |-> "idle", metadata |-> Absent]

InitStream ==
  /\ streamState = [k \in StreamKeys |-> Absent]
  /\ handle = NoHandle
  /\ wpc = "idle"
  /\ wloc = NoWriterLocals
  /\ streamTopic = {}
  /\ registered = FALSE
  /\ subscriptions = <<>>
  /\ streamSub = [x \in StreamSubs |-> NoStreamSub]
  /\ spc = [x \in StreamSubs |-> "idle"]
  /\ sloc = [x \in StreamSubs |-> NoLocals]
  /\ delivered = [x \in StreamSubs |-> <<>>]
  /\ nWrites = 0
  /\ nCreates = 0
  /\ nStreamDup = 0
  /\ thrown = NoError
  /\ closeLog = NoCloses
  /\ closer = NoCloser

writerVars == <<handle, wpc, wloc, nWrites, nCreates, thrown, closeLog>>
subscriberVars == <<registered, subscriptions, streamSub, spc, sloc, delivered>>

\* createStream: await getStreamMetadata
CreateStream ==
  /\ wpc = "idle"
  /\ nCreates < MaxCreates
  /\ nCreates' = nCreates + 1
  /\ wpc' = "createStream_get"
  /\ UNCHANGED <<streamState, handle, wloc, nWrites, streamTopic, nStreamDup,
                 thrown, closeLog, subscriberVars>>

\* createStream that does not look at isOpen
CreateStreamGetReopen ==
  /\ wpc = "createStream_get"
  /\ wpc' = "createStream_save"
  /\ UNCHANGED <<streamState, handle, wloc, nWrites, nCreates, streamTopic,
                 nStreamDup, thrown, closeLog, subscriberVars>>

\* createStream: the metadata read returns; an open stream is an error
CreateStreamGet ==
  /\ wpc = "createStream_get"
  /\ LET existing == streamState[StreamKey]
     IN IF existing.has /\ existing.v.isOpen
        THEN wpc' = "idle" /\ thrown' = AlreadyOpen
        ELSE wpc' = "createStream_save" /\ UNCHANGED thrown
  /\ UNCHANGED <<streamState, handle, wloc, nWrites, nCreates, streamTopic,
                 nStreamDup, closeLog, subscriberVars>>

\* createStream: save metadata and counter, construct the handle
CreateStreamSave ==
  /\ wpc = "createStream_save"
  /\ streamState' = [streamState EXCEPT
                       ![StreamKey] = Val([isOpen |-> TRUE, chunkCount |-> 0]),
                       ![CounterKey] = Val(0)]
  /\ handle' = [exists |-> TRUE, open |-> TRUE, sequence |-> 0, mapped |-> TRUE]
  /\ closeLog' = NoCloses
  /\ thrown' = NoError
  /\ wpc' = "idle"
  /\ UNCHANGED <<wloc, nWrites, nCreates, streamTopic, nStreamDup,
                 subscriberVars>>

\* write that does not look at the open flag
WriteUnchecked ==
  /\ handle.exists
  /\ wpc = "idle"
  /\ nWrites < MaxWrites
  /\ nWrites' = nWrites + 1
  /\ handle' = [handle EXCEPT !.sequence = handle.sequence + 1]
  /\ wloc' = [wloc EXCEPT !.chunk = Val([sequence |-> handle.sequence + 1,
                                         data |-> nWrites + 1])]
  /\ wpc' = "write_save"
  /\ UNCHANGED <<streamState, nCreates, streamTopic, nStreamDup, thrown,
                 closeLog, subscriberVars>>

\* write: a closed handle throws; an open one takes the next sequence and
\* builds the chunk
Write ==
  /\ handle.exists
  /\ IF ~handle.open
     THEN /\ thrown' = StreamClosed
          /\ UNCHANGED <<handle, wpc, wloc, nWrites>>
     ELSE /\ wpc = "idle"
          /\ nWrites < MaxWrites
          /\ nWrites' = nWrites + 1
          /\ handle' = [handle EXCEPT !.sequence = handle.sequence + 1]
          /\ wloc' = [wloc EXCEPT !.chunk = Val([sequence |-> handle.sequence + 1,
                                                 data |-> nWrites + 1])]
          /\ wpc' = "write_save"
          /\ UNCHANGED thrown
  /\ UNCHANGED <<streamState, nCreates, streamTopic, nStreamDup, closeLog,
                 subscriberVars>>

\* write: persist the chunk and the counter
WriteSave ==
  /\ wpc = "write_save"
  /\ streamState' = [streamState EXCEPT
                       ![ChunkKey(wloc.chunk.v.sequence)] = wloc.chunk,
                       ![CounterKey] = Val(wloc.chunk.v.sequence)]
  /\ wpc' = "write_get"
  /\ UNCHANGED <<handle, wloc, nWrites, nCreates, streamTopic, nStreamDup,
                 thrown, closeLog, subscriberVars>>

\* write: read the stream metadata
WriteGet ==
  /\ wpc = "write_get"
  /\ wloc' = [wloc EXCEPT !.metadata = streamState[StreamKey]]
  /\ wpc' = IF streamState[StreamKey].has THEN "write_saveMetadata"
            ELSE "write_publish"
  /\ UNCHANGED <<streamState, handle, nWrites, nCreates, streamTopic,
                 nStreamDup, thrown, closeLog, subscriberVars>>

\* the metadata saved with the chunkCount before this write
WriteSaveMetadataStale ==
  /\ wpc = "write_saveMetadata"
  /\ streamState' = [streamState EXCEPT ![StreamKey] =
                       Val([wloc.metadata.v EXCEPT !.chunkCount = handle.sequence - 1])]
  /\ wpc' = "write_publish"
  /\ UNCHANGED <<handle, wloc, nWrites, nCreates, streamTopic, nStreamDup,
                 thrown, closeLog, subscriberVars>>

\* write: save { ...metadata, chunkCount: this.sequence }
WriteSaveMetadata ==
  /\ wpc = "write_saveMetadata"
  /\ streamState' = [streamState EXCEPT ![StreamKey] =
                       Val([wloc.metadata.v EXCEPT !.chunkCount = handle.sequence])]
  /\ wpc' = "write_publish"
  /\ UNCHANGED <<handle, wloc, nWrites, nCreates, streamTopic, nStreamDup,
                 thrown, closeLog, subscriberVars>>

\* pubsub.publish on the stream topic: the bus holds the message for
\* delivery; with no callback registered yet it may also have no consumer to
\* hold it for
Publish(data) ==
  \/ streamTopic' = streamTopic \cup {data}
  \/ ~registered /\ streamTopic' = streamTopic

\* write: publish the chunk for live subscribers
WritePublish ==
  /\ wpc = "write_publish"
  /\ Publish([type |-> "chunk", sequence |-> wloc.chunk.v.sequence,
              data |-> wloc.chunk.v.data])
  /\ wloc' = NoWriterLocals
  /\ thrown' = NoError
  /\ wpc' = "idle"
  /\ UNCHANGED <<streamState, handle, nWrites, nCreates, nStreamDup, closeLog,
                 subscriberVars>>

\* close that does not look at the open flag
CloseUnchecked ==
  /\ handle.exists
  /\ closeLog.calls < MaxCloses
  /\ closeLog' = [closeLog EXCEPT !.calls = @ + 1]
  /\ wpc = "idle"
  /\ handle' = [handle EXCEPT !.open = FALSE]
  /\ wpc' = "close_get"
  /\ UNCHANGED <<streamState, wloc, nWrites, nCreates, streamTopic, nStreamDup,
                 thrown, subscriberVars>>

\* close: a closed handle returns at once; an open one is marked closed, then
\* awaits the metadata read
Close ==
  /\ handle.exists
  /\ closeLog.calls < MaxCloses
  /\ closeLog' = [closeLog EXCEPT !.calls = @ + 1]
  /\ IF ~handle.open
     THEN /\ thrown' = NoError
          /\ UNCHANGED <<handle, wpc>>
     ELSE /\ wpc = "idle"
          /\ handle' = [handle EXCEPT !.open = FALSE]
          /\ wpc' = "close_get"
          /\ UNCHANGED thrown
  /\ UNCHANGED <<streamState, wloc, nWrites, nCreates, streamTopic, nStreamDup,
                 subscriberVars>>

\* close: read the stream metadata
CloseGet ==
  /\ wpc = "close_get"
  /\ wloc' = [wloc EXCEPT !.metadata = streamState[StreamKey]]
  /\ wpc' = IF streamState[StreamKey].has THEN "close_save" ELSE "close_publish"
  /\ UNCHANGED <<streamState, handle, nWrites, nCreates, streamTopic,
                 nStreamDup, thrown, closeLog, subscriberVars>>

\* { ...metadata, isOpen: false, closedAt: Date.now() }
ClosedMetadata(metadata, closedAt) ==
  [f \in DOMAIN metadata \cup {"isOpen", "closedAt"} |->
     IF f = "isOpen" THEN FALSE
     ELSE IF f = "closedAt" THEN closedAt
     ELSE metadata[f]]

\* close: save the metadata marked closed
CloseSave ==
  /\ wpc = "close_save"
  /\ streamState' = [streamState EXCEPT ![StreamKey] =
                       Val(ClosedMetadata(wloc.metadata.v, now))]
  /\ closeLog' = [closeLog EXCEPT !.saves = @ + 1]
  /\ wpc' = "close_publish"
  /\ UNCHANGED <<handle, wloc, nWrites, nCreates, streamTopic, nStreamDup,
                 thrown, subscriberVars>>

\* close: publish the stream_closed signal, and return to the caller
ClosePublish ==
  /\ wpc = "close_publish"
  /\ Publish([type |-> "stream_closed", sequence |-> 0, data |-> nCreates])
  /\ closeLog' = [closeLog EXCEPT !.sentinels = @ + 1]
  /\ wloc' = NoWriterLocals
  /\ thrown' = NoError
  /\ wpc' = IF wloc.shutdown THEN "shutdown_clear" ELSE "idle"
  /\ UNCHANGED <<streamState, handle, nWrites, nCreates, nStreamDup,
                 subscriberVars>>

\* handler(chunk) calls appended to the record of subscription x
RECURSIVE HandlerCalls(_, _)
HandlerCalls(chunks, live) ==
  IF chunks = <<>> THEN <<>>
  ELSE <<[sequence |-> Head(chunks).sequence, data |-> Head(chunks).data,
          live |-> live]>> \o HandlerCalls(Tail(chunks), live)

\* the replay loop of subscribe over the chunks getChunks returned, followed
\* by the await on server.pubsub.subscribe
Replay(x, chunks) ==
  LET sorted == SortBySequence(chunks)
  IN /\ IF streamSub[x].active /\ sorted # <<>>
        THEN /\ delivered' = [delivered EXCEPT
                                ![x] = @ \o HandlerCalls(sorted, FALSE)]
             /\ streamSub' = [streamSub EXCEPT
                                ![x].lastSequence = sorted[Len(sorted)].sequence]
        ELSE UNCHANGED <<delivered, streamSub>>
     /\ spc' = [spc EXCEPT ![x] = "subscribe_register"]

\* subscribe: await getStreamMetadata
StreamSubscribe(x, fromSequence, liveOnly) ==
  /\ spc[x] = "idle"
  /\ sloc' = [sloc EXCEPT ![x] = [NoLocals EXCEPT !.fromSequence = fromSequence,
                                                  !.liveOnly = liveOnly]]
  /\ spc' = [spc EXCEPT ![x] = "subscribe_get"]
  /\ UNCHANGED <<streamState, writerVars, streamTopic, nStreamDup, registered,
                 subscriptions, streamSub, delivered>>

\* subscribe: the metadata read returns; the subscription is pushed to the
\* subscriptions map, then replay starts with getChunks (await
\* getStreamMetadata) unless liveOnly or the stream is unknown
SubscribeGet(x) ==
  /\ spc[x] = "subscribe_get"
  /\ streamSub' = [streamSub EXCEPT
                     ![x] = [active |-> TRUE,
                             lastSequence |-> sloc[x].fromSequence]]
  /\ subscriptions' = Append(subscriptions, x)
  /\ spc' = [spc EXCEPT ![x] = IF ~sloc[x].liveOnly /\ streamState[StreamKey].has
                               THEN "getChunks_metadata"
                               ELSE "subscribe_register"]
  /\ UNCHANGED <<streamState, writerVars, streamTopic, nStreamDup, registered,
                 sloc, delivered>>

\* getChunks: the metadata read returns; the fetch loop starts at
\* fromSequence + 1 and runs to metadata.chunkCount
GetChunksMetadata(x) ==
  /\ spc[x] = "getChunks_metadata"
  /\ LET metadata == streamState[StreamKey]
         startSequence == sloc[x].fromSequence + 1
     IN IF metadata.has /\ startSequence <= metadata.v.chunkCount
        THEN /\ sloc' = [sloc EXCEPT ![x].chunkCount = metadata.v.chunkCount,
                                     ![x].seq = startSequence]
             /\ spc' = [spc EXCEPT ![x] = "getChunks_get"]
             /\ UNCHANGED <<delivered, streamSub>>
        ELSE /\ Replay(x, <<>>)
             /\ UNCHANGED sloc
  /\ UNCHANGED <<streamState, writerVars, streamTopic, nStreamDup, registered,
                 subscriptions>>

\* getChunks: one chunk read returns; after the last one the chunks are
\* sorted and replayed
GetChunksGet(x) ==
  /\ spc[x] = "getChunks_get"
  /\ LET chunk == streamState[ChunkKey(sloc[x].seq)]
         chunks == IF chunk.has THEN Append(sloc[x].chunks, chunk.v)
                   ELSE sloc[x].chunks
     IN IF sloc[x].seq + 1 <= sloc[x].chunkCount
        THEN /\ sloc' = [sloc EXCEPT ![x].chunks = chunks, ![x].seq = @ + 1]
             /\ UNCHANGED <<spc, delivered, streamSub>>
        ELSE /\ Replay(x, chunks)
             /\ sloc' = [sloc EXCEPT ![x].chunks = <<>>]
  /\ UNCHANGED <<streamState, writerVars, streamTopic, nStreamDup, registered,
                 subscriptions>>

\* subscribe: server.pubsub.subscribe returns, the callback for the stream
\* topic is registered and the caller gets its StreamSubscription
SubscribeRegister(x) ==
  /\ spc[x] = "subscribe_register"
  /\ registered' = TRUE
  /\ spc' = [spc EXCEPT ![x] = "subscribed"]
  /\ UNCHANGED <<streamState, writerVars, streamTopic, nStreamDup,
                 subscriptions, streamSub, sloc, delivered>>

\* StreamSubscription.unsubscribe
StreamUnsubscribe(x) ==
  /\ spc[x] = "subscribed"
  /\ streamSub' = [streamSub EXCEPT ![x].active = FALSE]
  /\ subscriptions' = FilterOut(subscriptions, x)
  /\ spc' = [spc EXCEPT ![x] = "unsubscribed"]
  /\ UNCHANGED <<streamState, writerVars, streamTopic, nStreamDup, registered,
                 sloc, delivered>>

\* chunk.sequence > sub.lastSequence, for an active subscription in the map
Accepts(x, data) ==
  /\ Includes(subscriptions, x)
  /\ data.type # "stream_closed"
  /\ streamSub[x].active
  /\ data.sequence > streamSub[x].lastSequence

\* handleStreamMessage
HandleStreamMessage(data) ==
  /\ delivered' = [x \in StreamSubs |->
                     IF Accepts(x, data)
                     THEN Append(delivered[x],
                                 [sequence |-> data.sequence,
                                  data |-> data.data, live |-> TRUE])
                     ELSE delivered[x]]
  /\ streamSub' = [x \in StreamSubs |->
                     IF Accepts(x, data)
                     THEN [streamSub[x] EXCEPT !.lastSequence = data.sequence]
                     ELSE streamSub[x]]

\* the bus calls the registered callback with a message published to the
\* stream topic, in any order, possibly more than once
StreamDeliver(data, duplicate) ==
  /\ registered
  /\ data \in streamTopic
  /\ IF duplicate
     THEN /\ nStreamDup < MaxStreamDup
          /\ nStreamDup' = nStreamDup + 1
          /\ UNCHANGED streamTopic
     ELSE /\ streamTopic' = streamTopic \ {data}
          /\ UNCHANGED nStreamDup
  /\ HandleStreamMessage(data)
  /\ UNCHANGED <<streamState, writerVars, registered, subscriptions, spc, sloc>>

\* getChunks: the fetch loop from seq to chunkCount
RECURSIVE FetchChunks(_, _)
FetchChunks(seq, chunkCount) ==
  IF seq > chunkCount THEN <<>>
  ELSE (IF streamState[ChunkKey(seq)].has
        THEN <<streamState[ChunkKey(seq)].v>> ELSE <<>>)
       \o FetchChunks(seq + 1, chunkCount)

\* getChunks(streamId, fromSequence) on a store nobody else is writing
GetChunks(fromSequence) ==
  LET metadata == streamState[StreamKey]
  IN IF ~metadata.has THEN <<>>
     ELSE SortBySequence(FetchChunks(fromSequence + 1, metadata.v.chunkCount))

----------------------------------------------------------------------------
\* Hook operations

\* createHook(hook)
CreateHook(p, token) ==
  /\ CanStart(p)
  /\ store' = StateSave(store, <<[key |-> HookKey(token),
                                  value |-> [token |-> token, status |-> "pending"]]>>)
  /\ nOps' = nOps + 1
  /\ UNCHANGED <<pc, loc>>

\* updateHook that saves the updates when there is no hook
UpdateHookUpsert(p, token, updStatus) ==
  /\ CanStart(p)
  /\ LET existing == store[HookKey(token)]
         base == IF existing.has THEN existing.v ELSE [token |-> token]
     IN /\ pc' = [pc EXCEPT ![p] = "updateHook_save"]
        /\ loc' = [loc EXCEPT ![p] =
                     [op |-> "updateHook", token |-> token,
                      updated |-> [f \in DOMAIN base \cup {"status"} |->
                                     IF f = "status" THEN updStatus ELSE base[f]],
                      operations |-> <<>>]]
  /\ nOps' = nOps + 1
  /\ UNCHANGED store

\* updateHook(token, {status}): getHook, then throw or go on to the save
UpdateHook(p, token, updStatus) ==
  /\ CanStart(p)
  /\ LET existing == store[HookKey(token)]
     IN IF ~existing.has
        THEN Reject(p, [op |-> "updateHook", token |-> token, error |-> <<>>],
                    <<"Hook not found", token>>)
        ELSE /\ pc' = [pc EXCEPT ![p] = "updateHook_save"]
             /\ loc' = [loc EXCEPT ![p] =
                          [op |-> "updateHook", token |-> token,
                           updated |-> [existing.v EXCEPT !.status = updStatus],
                           operations |-> <<>>]]
  /\ nOps' = nOps + 1
  /\ UNCHANGED store

\* updateHook: save { ...existing, ...updates }
UpdateHookSave(p) ==
  /\ pc[p] = "updateHook_save"
  /\ store' = StateSave(store, <<[key |-> HookKey(loc[p].token),
                                  value |-> loc[p].updated]>>)
  /\ Finish(p)
  /\ UNCHANGED nOps

\* deleteHook(token)
DeleteHook(p, token) ==
  /\ CanStart(p)
  /\ store' = StateDelete(store, HookKey(token))
  /\ nOps' = nOps + 1
  /\ UNCHANGED <<pc, loc>>

----------------------------------------------------------------------------
\* Web adapter: events.create for an existing run

EventTypes == {"run_started", "run_completed", "run_failed", "run_cancelled",
               "step_started"}

\* the status the switch of events.create hands to updateRun
StatusOfEvent(eventType) ==
  CASE eventType = "run_started" -> "running"
    [] eventType = "run_completed" -> "completed"
    [] eventType = "run_failed" -> "failed"
    [] eventType = "run_cancelled" -> "cancelled"
    [] OTHER -> NoStatus

\* events.create(runId, {eventType}): storage.createEvent reads the counter
EventsCreate(p, r, eventType) ==
  /\ CanStart(p)
  /\ LET counterResult == store[EventCounterKey(r)]
         currentCounter == IF counterResult.has THEN counterResult.v ELSE 0
     IN loc' = [loc EXCEPT ![p] =
                  [op |-> "events.create", run |-> r, sequence |-> currentCounter + 1,
                   data |-> nOps + 1, eventType |-> eventType,
                   operations |-> <<>>]]
  /\ pc' = [pc EXCEPT ![p] = "createEvent_index"]
  /\ nOps' = nOps + 1
  /\ UNCHANGED store

\* events.create: the switch on the event type; storage.updateRun reads the
\* run and throws when there is none
EventsCreateSwitch(p) ==
  /\ pc[p] = "eventsCreate_switch"
  /\ LET r == loc[p].run
         existing == GetRun(r)
         status == StatusOfEvent(loc[p].eventType)
     IN IF status = NoStatus
        THEN Finish(p)
        ELSE IF ~existing.has
        THEN Reject(p, [op |-> "events.create", run |-> r, error |-> <<>>],
                    <<"Run not found", r>>)
        ELSE /\ pc' = [pc EXCEPT ![p] = "updateRun_save"]
             /\ loc' = [loc EXCEPT ![p] =
                          [op |-> "events.create", run |-> r,
                           updated |-> MergeRun(existing.v, [status |-> status],
                                                ToISOString(now)),
                           operations |-> <<>>]]
  /\ UNCHANGED <<store, nOps>>

----------------------------------------------------------------------------
\* Specifications

vars == <<storeVars, queueVars, streamVars>>

InitStore ==
  /\ store = [k \in Keys |-> Absent]
  /\ pc = [p \in Procs |-> "idle"]
  /\ loc = [p \in Procs |-> Idle]
  /\ nOps = 0
  /\ returned = {}
  /\ initialized = [p \in Procs |-> FALSE]

Init == InitStore /\ InitQueue /\ InitStream

\* the events known to the callers after a step of p: createEvent returns its
\* fullEvent when its transaction has completed; deleteRun ends the life of
\* the run's events
Returns(p) ==
  IF pc[p] = "tx_save" /\ loc[p].op = "createEvent" /\ pc'[p] = "idle"
  THEN returned \cup {Head(loc[p].operations).value}
  ELSE IF pc[p] = "idle" /\ pc'[p] # "idle" /\ loc'[p].op = "deleteRun"
  THEN {e \in returned : e.runId # loc'[p].run}
  ELSE returned

\* one step of storage client p
StoreStep(p) ==
  /\ \/ \E r \in RunIds : CreateRun(p, r)
     \/ CreateRunInit(p)
     \/ \E r \in RunIds : UpdateRun(p, r, "completed")
     \/ UpdateRunSave(p)
     \/ \E r \in RunIds : DeleteRun(p, r)
     \/ ListStepsGet(p)
     \/ GetEventsReadIndex(p)
     \/ GetEventsGet(p)
     \/ DeleteRunReadIndex(p)
     \/ \E r \in RunIds, s \in StepIds, ck \in CacheKeys \cup {NoCacheKey} :
          CreateStep(p, r, s, ck)
     \/ \E r \in RunIds, s \in StepIds, ck \in CacheKeys \cup {NoCacheKey},
           st \in StatusUpdates :
          UpdateStep(p, r, s, ck, st)
     \/ \E r \in RunIds, s \in StepIds : DeleteStep(p, r, s)
     \/ DeleteStepReadIndex(p)
     \/ \E r \in RunIds : CreateEvent(p, r)
     \/ CreateEventReadIndex(p)
     \/ TxSave(p)
     \/ TxDelete(p)
     \/ Throw(p)
  /\ returned' = Returns(p)
  /\ UNCHANGED initialized

\* one process: calls never overlap
NextSeq == StoreStep("p1") /\ UNCHANGED <<queueVars, streamVars>>

SpecStoreSeq == Init /\ [][NextSeq]_vars

\* two processes sharing the store: their store accesses interleave
NextConc == (\E p \in Procs : StoreStep(p)) /\ UNCHANGED <<queueVars, streamVars>>

SpecStoreConc == Init /\ [][NextConc]_vars

\* one process appending events by createEvent calls that do not overlap;
\* a run may be created while it has no events
NextEventLog ==
  /\ \/ \E r \in RunIds :
          /\ GetEventsIndex(r) = <<>>
          /\ \A e \in EventSeqs : ~store[EventKey(r, e)].has
          /\ CreateRun("p1", r)
     \/ CreateRunInit("p1")
     \/ \E r \in RunIds : CreateEvent("p1", r)
     \/ CreateEventReadIndex("p1")
     \/ TxSave("p1")
  /\ returned' = Returns("p1")
  /\ UNCHANGED initialized
  /\ UNCHANGED <<queueVars, streamVars>>

SpecEventLog == Init /\ [][NextEventLog]_vars

\* the queue: instances, the bus, timers and handlers interleave
\* the steps of the DaprQueue instances C, their bus, timers and handlers; at
\* most msgLimit messages are sent and the bus makes at most dupLimit
\* duplicate deliveries
QueueStep(C, msgLimit, dupLimit) ==
  \/ \E d \in Delays, m \in MaxAttemptsChoices :
       nSent < msgLimit /\ Send(Producer, d, m)
  \/ \E message \in BagToSet(sending[Producer]) : SendStore(Producer, message)
  \/ \E c \in C, k \in ConcurrencyChoices : Subscribe(c, k)
  \/ \E c \in C, message \in qTopic, duplicate \in BOOLEAN :
       (duplicate => nDup < dupLimit) /\ Deliver(c, message, duplicate)
  \/ \E c \in C : \E timer \in BagToSet(timers[c]) : TimerFire(c, timer)
  \/ \E c \in C : \E message \in BagToSet(inProgress[c]) : HandlerReturn(c, message)
  \/ \E c \in C : \E message \in BagToSet(inProgress[c]) : HandlerThrow(c, message)
  \/ \E c \in C : \E id \in BagToSet(nacking[c]) : NackDelete(c, id)
  \/ Tick

\* one DaprQueue instance that sends and consumes; the bus delivers every
\* published message once
NextQueue == QueueStep({Producer}, MaxMsgs, 0) /\ UNCHANGED <<storeVars, streamVars>>

SpecQueue == Init /\ [][NextQueue]_vars

\* the same with one message more, so that messages compete for the
\* subscription's capacity
NextQueueLoad == QueueStep({Producer}, LoadMsgs, 0) /\ UNCHANGED <<storeVars, streamVars>>

SpecQueueLoad == Init /\ [][NextQueueLoad]_vars

\* one instance on an at-least-once bus that may deliver a message again
NextQueueDup == QueueStep({Producer}, MaxMsgs, MaxDup) /\ UNCHANGED <<storeVars, streamVars>>

SpecQueueDup == Init /\ [][NextQueueDup]_vars

\* two DaprQueue instances subscribed to the same queue topic on an
\* at-least-once bus
NextQueueMulti == QueueStep(Consumers, MaxMsgs, MultiDup) /\ UNCHANGED <<storeVars, streamVars>>

SpecQueueMulti == Init /\ [][NextQueueMulti]_vars

\* one instance and one message that is retried up to its maxAttempts: the
\* handler throws, returns, or calls nack itself
NextRetry ==
  /\ \/ \E d \in Delays, m \in RetryAttemptsChoices :
          nSent = 0 /\ Send(Producer, d, m)
     \/ \E message \in BagToSet(sending[Producer]) : SendStore(Producer, message)
     \/ \E k \in ConcurrencyChoices : Subscribe(Producer, k)
     \/ \E message \in qTopic : Deliver(Producer, message, FALSE)
     \/ \E timer \in BagToSet(timers[Producer]) : TimerFire(Producer, timer)
     \/ \E message \in BagToSet(inProgress[Producer]) :
          HandlerReturn(Producer, message)
     \/ \E message \in BagToSet(inProgress[Producer]) :
          HandlerThrow(Producer, message)
     \/ \E message \in BagToSet(inProgress[Producer]), requeue \in BOOLEAN :
          NackCall(Producer, message, requeue)
     \/ \E id \in BagToSet(nacking[Producer]) : NackDelete(Producer, id)
     \/ Advance
  /\ UNCHANGED <<storeVars, streamVars>>

SpecRetry == Init /\ [][NextRetry]_vars

\* one instance that subscribes, unsubscribes and subscribes again while one
\* message is sent, delivered, rescheduled and retried
NextUnsubscribe ==
  /\ \/ \E d \in Delays, m \in MaxAttemptsChoices :
          nSent = 0 /\ Send(Producer, d, m)
     \/ \E message \in BagToSet(sending[Producer]) : SendStore(Producer, message)
     \/ \E k \in ConcurrencyChoices : Subscribe(Producer, k)
     \/ Unsubscribe(Producer)
     \/ \E message \in qTopic : Deliver(Producer, message, FALSE)
     \/ \E timer \in BagToSet(timers[Producer]) : TimerFire(Producer, timer)
     \/ \E message \in BagToSet(inProgress[Producer]) :
          HandlerReturn(Producer, message)
     \/ \E message \in BagToSet(inProgress[Producer]) :
          HandlerThrow(Producer, message)
     \/ \E id \in BagToSet(nacking[Producer]) : NackDelete(Producer, id)
     \/ Tick
  /\ UNCHANGED <<storeVars, streamVars>>

SpecUnsubscribe == Init /\ [][NextUnsubscribe]_vars

\* one process creating runs and moving their status by updateRun and by
\* events.create, calls not overlapping
NextRunStatus ==
  /\ \/ \E r \in RunIds : CreateRun("p1", r)
     \/ CreateRunInit("p1")
     \/ \E r \in RunIds, status \in RunStatusValues : UpdateRun("p1", r, status)
     \/ UpdateRunSave("p1")
     \/ \E r \in RunIds, eventType \in EventTypes : EventsCreate("p1", r, eventType)
     \/ CreateEventReadIndex("p1")
     \/ TxSave("p1")
     \/ EventsCreateSwitch("p1")
     \/ Throw("p1")
  /\ returned' = Returns("p1")
  /\ UNCHANGED initialized
  /\ UNCHANGED <<queueVars, streamVars>>

SpecRunStatus == Init /\ [][NextRunStatus]_vars

\* the Run records a caller creates at time t, stamped as the adapter does
NewRuns(t) ==
  {[id |-> r, workflowId |-> "w1", status |-> "pending", input |-> "i1",
    createdAt |-> ToISOString(t), updatedAt |-> ToISOString(t)] : r \in RunIds}

\* Partial<Run> values given to updateRun
RunUpdates ==
  { [f \in {} |-> f],
    [status |-> "completed"],
    [output |-> "o1"],
    [status |-> "completed", output |-> "o1"],
    [updatedAt |-> ToISOString(0)] }

\* time passes between two calls
Elapse ==
  /\ \A p \in Procs : pc[p] = "idle"
  /\ now < MaxTicks * TickMs
  /\ now' = now + TickMs
  /\ UNCHANGED <<qTopic, dlqTopic, subs, messageStore, timers, inProgress,
                 nacking, sending, nSent, nDup, stats, dropped>>

\* one process creating full Run records and updating them while the clock
\* runs, calls not overlapping
NextRunUpdate ==
  /\ \/ /\ \/ \E run \in NewRuns(now) : CreateRunWith("p1", run)
           \/ CreateRunInit("p1")
           \/ TxSave("p1")
           \/ \E r \in RunIds, updates \in RunUpdates : UpdateRunWith("p1", r, updates)
           \/ UpdateRunSave("p1")
           \/ Throw("p1")
        /\ UNCHANGED <<returned, initialized, queueVars>>
     \/ Elapse /\ UNCHANGED storeVars
  /\ UNCHANGED streamVars

SpecRunUpdate == Init /\ [][NextRunUpdate]_vars

\* two processes creating, updating and deleting runs, steps and hooks
NextUpdates ==
  /\ \E p \in Procs :
       \/ \E r \in RunIds : CreateRun(p, r)
       \/ CreateRunInit(p)
       \/ \E r \in RunIds, status \in {"running", "completed"} : UpdateRun(p, r, status)
       \/ UpdateRunSave(p)
       \/ \E r \in RunIds, s \in StepIds : CreateStep(p, r, s, NoCacheKey)
       \/ \E r \in RunIds, s \in StepIds, ck \in {NoCacheKey, "k1"} :
            UpdateStep(p, r, s, ck, "completed")
       \/ \E r \in RunIds, s \in StepIds : DeleteStep(p, r, s)
       \/ DeleteStepReadIndex(p)
       \/ \E token \in HookTokens : CreateHook(p, token)
       \/ \E token \in HookTokens : UpdateHook(p, token, "received")
       \/ UpdateHookSave(p)
       \/ \E token \in HookTokens : DeleteHook(p, token)
       \/ TxSave(p)
       \/ TxDelete(p)
       \/ Throw(p)
  /\ UNCHANGED <<returned, initialized, queueVars, streamVars>>

SpecUpdates == Init /\ [][NextUpdates]_vars

\* one writer whose createStream, write and close calls do not overlap
NextWriter ==
  /\ \/ CreateStream
     \/ CreateStreamGet
     \/ CreateStreamSave
     \/ handle.open /\ Write
     \/ WriteSave
     \/ WriteGet
     \/ WriteSaveMetadata
     \/ WritePublish
     \/ handle.open /\ Close
     \/ CloseGet
     \/ CloseSave
     \/ ClosePublish
  /\ UNCHANGED <<storeVars, queueVars, closer>>

SpecWriter == Init /\ [][NextWriter]_vars

\* one writer, subscribers and the bus of one stream interleave
NextStream ==
  /\ \/ CreateStream
     \/ CreateStreamGet
     \/ CreateStreamSave
     \/ handle.open /\ Write
     \/ WriteSave
     \/ WriteGet
     \/ WriteSaveMetadata
     \/ WritePublish
     \/ handle.open /\ Close
     \/ CloseGet
     \/ CloseSave
     \/ ClosePublish
     \/ \E x \in StreamSubs, fromSequence \in FromSequences, liveOnly \in BOOLEAN :
          StreamSubscribe(x, fromSequence, liveOnly)
     \/ \E x \in StreamSubs : SubscribeGet(x)
     \/ \E x \in StreamSubs : GetChunksMetadata(x)
     \/ \E x \in StreamSubs : GetChunksGet(x)
     \/ \E x \in StreamSubs : SubscribeRegister(x)
     \/ \E x \in StreamSubs : StreamUnsubscribe(x)
     \/ \E data \in streamTopic, duplicate \in BOOLEAN :
          StreamDeliver(data, duplicate)
  /\ UNCHANGED <<storeVars, queueVars, closer>>

SpecStream == Init /\ [][NextStream]_vars

----------------------------------------------------------------------------
\* Properties of the store

\* no storage operation is between two of its store accesses
StoreQuiet == \A p \in Procs : pc[p] = "idle"

StoredSteps(r) == {s \in StepIds : store[StepKey(r, s)].has}
StoredEvents(r) == {e \in EventSeqs : store[EventKey(r, e)].has}
StoredRuns == {r \in RunIds : store[RunKey(r)].has}

\* C1: whenever all createEvent calls have returned, also calls of two
\* processes that interleaved, getEvents(runId) returns events whose
\* sequence numbers are exactly 1..n: the i-th returned event has sequence i.
C1_EventSequencesAreOneToN ==
  StoreQuiet =>
    \A r \in RunIds :
      \A i \in DOMAIN GetEvents(r) : GetEvents(r)[i].sequence = i

\* C4: whenever no store operation is mid-flight, the ids in the runs index
\* are exactly the run ids that have a stored Run record.
C4_RunsIndexMatchesRecords ==
  StoreQuiet => Range(GetRunsIndex) = StoredRuns

\* C5: after completed calls, a run's steps index lists exactly the steps
\* with a stored record and its events index exactly the stored events.
C5_RunIndexesMatchRecords ==
  StoreQuiet =>
    \A r \in RunIds :
      /\ Range(GetStepsIndex(r)) = StoredSteps(r)
      /\ Range(GetEventsIndex(r)) = StoredEvents(r)

\* C6: after completed calls, every stored cache mapping K -> (runId, stepId)
\* points to a stored step whose current cacheKey is K.
C6_NoStaleCacheMapping ==
  StoreQuiet =>
    \A k \in CacheKeys :
      store[CacheKey(k)].has =>
        LET m == store[CacheKey(k)].v
        IN /\ store[StepKey(m.runId, m.stepId)].has
           /\ store[StepKey(m.runId, m.stepId)].v.cacheKey = k

\* C13: as long as its run has not been deleted, an event createEvent has
\* returned is among the events getEvents returns for the run, unchanged.
C13_ReturnedEventStays ==
  StoreQuiet =>
    \A e \in returned : \E i \in DOMAIN GetEvents(e.runId) : GetEvents(e.runId)[i] = e

\* the events createEvent has returned for run r
ReturnedFor(r) == {e \in returned : e.runId = r}

\* C14: for events created for a run by createEvent calls that do not
\* overlap, starting without events, the i-th created event has sequence i,
\* getEvents returns all of them in ascending sequence order without gaps,
\* and getEvents(runId, k) returns exactly those with sequence > k.
C14_SequentialEventsNumbered ==
  StoreQuiet =>
    \A r \in RunIds :
      LET events == GetEvents(r)
          n == Cardinality(ReturnedFor(r))
      IN /\ Len(events) = n
         /\ \A i \in 1..n : events[i].sequence = i /\ events[i] \in ReturnedFor(r)
         /\ \A i, j \in 1..n : i < j => events[i].data < events[j].data
         /\ \A k \in 0..n : GetEventsAfter(r, k) = SubSeq(events, k + 1, n)

\* C14 witness: two events have been created for one run and one for the other
C14_Witness ==
  /\ StoreQuiet
  /\ \E r \in RunIds : Cardinality(ReturnedFor(r)) = 2 /\ Len(GetEvents(r)) = 2
  /\ \E r \in RunIds : Cardinality(ReturnedFor(r)) = 1

----------------------------------------------------------------------------
\* Properties of the queue

\* nothing is in flight: no message on the bus, no scheduled re-check, no
\* handler running, no send or nack awaiting its publish
QueueQuiet ==
  /\ qTopic = {}
  /\ \A c \in Consumers :
       /\ timers[c] = EmptyBag
       /\ inProgress[c] = EmptyBag
       /\ nacking[c] = EmptyBag
       /\ sending[c] = EmptyBag

\* handler invocations in progress for message id at instance c
InProgressFor(c, id) ==
  LET same == {message \in BagToSet(inProgress[c]) : message.id = id}
      RECURSIVE Sum(_)
      Sum(S) == IF S = {} THEN 0
                ELSE LET x == CHOOSE x \in S : TRUE
                     IN CopiesIn(x, inProgress[c]) + Sum(S \ {x})
  IN Sum(same)

\* C2: with a handler that always throws and a bus that delivers every
\* published message once, when everything has settled each message sent
\* with maxAttempts = M has had its handler invoked exactly M times, was
\* republished M-1 times and was published to the DLQ topic exactly once.
C2_ThrowingHandlerRetriesThenDlq ==
  (QueueQuiet /\ nDup = 0 /\ \A i \in MsgIds : stats[i].ok = 0) =>
    \A i \in 1..nSent :
      /\ stats[i].invoked = stats[i].maxAttempts
      /\ stats[i].requeued = stats[i].maxAttempts - 1
      /\ stats[i].dlq = 1

\* C7: the handler is only invoked for a message whose visibleAt has been
\* reached, and a message taken from the bus before its visibleAt by an
\* active subscription is scheduled for a re-check instead of being handled.
C7_HandlerNotBeforeVisibleAt ==
  [][ /\ \A c \in Consumers : \A message \in BagToSet(inProgress'[c]) :
           CopiesIn(message, inProgress'[c]) > CopiesIn(message, inProgress[c])
             => message.visibleAt <= now
      /\ \A message \in qTopic \ qTopic' :
           message.visibleAt > now =>
             /\ inProgress' = inProgress
             /\ \E c \in Consumers : \E timer \in BagToSet(timers'[c]) :
                  /\ subs[c].active
                  /\ timer.message = message
                  /\ timer.fireAt > now
                  /\ CopiesIn(timer, timers'[c]) > CopiesIn(timer, timers[c])
    ]_vars

\* C7 witness: the handler is running for a message that was sent with a
\* delay or requeued with a backoff, after a scheduled re-check
C7_Witness ==
  \E message \in BagToSet(inProgress[Producer]) :
    /\ message.visibleAt > 0
    /\ now >= message.visibleAt
    /\ timers[Producer] = EmptyBag

\* C8: a message dropped at the concurrency limit is not lost: when
\* everything has settled and the bus has nothing left to deliver, it has
\* been passed to the handler or published to the DLQ since.
C8_DroppedMessageNotLost ==
  QueueQuiet => dropped = {}

\* C9: the handler invocations in progress of a subscription never exceed
\* its concurrency option.
C9_InProgressWithinConcurrency ==
  \A c \in Consumers :
    subs[c].exists => BagCardinality(inProgress[c]) <= subs[c].concurrency

\* C10: a message id is in the processing set of at most one consumer and
\* has at most one handler invocation in progress.
C10_OneOwnerPerMessage ==
  \A id \in MsgIds :
    /\ Cardinality({c \in Consumers : id \in subs[c].processing}) <= 1
    /\ InProgressFor("c1", id) + InProgressFor("c2", id) <= 1

\* the messages a step publishes to the queue topic by a requeue
Requeued == {message \in qTopic' \ qTopic : message.attempts >= 1}

\* min(1000 * 2^n, 30000)
SpecifiedBackoff(n) ==
  IF 1000 * Pow2(n) < 30000 THEN 1000 * Pow2(n) ELSE 30000

PublishesAsSpecified(c, id, requeue) ==
  LET message == messageStore[c][id].v
      attempts == message.attempts + 1
  IN /\ \A i \in MsgIds \ {id} :
          /\ stats'[i].requeued = stats[i].requeued
          /\ stats'[i].dlq = stats[i].dlq
     /\ IF requeue /\ attempts < message.maxAttempts
        THEN /\ stats'[id].requeued = stats[id].requeued + 1
             /\ stats'[id].dlq = stats[id].dlq
             /\ \E m \in qTopic' : m.id = id /\ m.attempts = attempts
             /\ dlqTopic' = dlqTopic
        ELSE /\ stats'[id].requeued = stats[id].requeued
             /\ stats'[id].dlq = stats[id].dlq + 1
             /\ qTopic' = qTopic
             /\ [id |-> id, attempts |-> attempts, sentToDlqAt |-> now,
                 reason |-> IF requeue THEN "max_attempts_exceeded"
                            ELSE "nack_no_requeue"] \in dlqTopic'

\* C12: nack on a tracked message publishes exactly one message, to the
\* queue topic when requeue is true and the incremented attempts are below
\* maxAttempts, otherwise to the DLQ topic with sentToDlqAt and the reason
\* max_attempts_exceeded (requeue) or nack_no_requeue (no requeue); a
\* handler throw is a nack with requeue, and a handler success with autoAck
\* acks the message and publishes nothing.
C12_NackPublishesOnce ==
  [][\A c \in Consumers :
       /\ \A message \in BagToSet(inProgress[c]) :
            (HandlerThrow(c, message) /\ messageStore[c][message.id].has)
              => PublishesAsSpecified(c, message.id, TRUE)
       /\ \A message \in BagToSet(inProgress[c]), requeue \in BOOLEAN :
            NackCall(c, message, requeue)
              => PublishesAsSpecified(c, message.id, requeue)
       /\ \A message \in BagToSet(inProgress[c]) :
            HandlerReturn(c, message) =>
              /\ qTopic' = qTopic
              /\ dlqTopic' = dlqTopic
              /\ \A i \in MsgIds : /\ stats'[i].requeued = stats[i].requeued
                                   /\ stats'[i].dlq = stats[i].dlq
              /\ ~messageStore'[c][message.id].has
              /\ message.id \notin subs'[c].processing
    ]_vars

\* C12 witness: a message was requeued by a throw and later sent to the DLQ
\* by a nack without requeue
C12_Witness ==
  \E d \in dlqTopic :
    /\ d.reason = "nack_no_requeue"
    /\ stats[d.id].requeued >= 1
    /\ stats[d.id].dlq = 1

----------------------------------------------------------------------------
\* Properties of the streamer

\* C3: over replay and live delivery together, the handler of a stream
\* subscription is never called twice with the same chunk sequence number.
C3_HandlerOncePerSequence ==
  \A x \in StreamSubs : \A i, j \in DOMAIN delivered[x] :
    i # j => delivered[x][i].sequence # delivered[x][j].sequence

\* C15: the handler calls of a subscription's replay carry chunks with
\* sequence greater than fromSequence, in ascending sequence order, and all
\* of them come before the first call made by live delivery.
C15_ReplayBeforeLive ==
  \A x \in StreamSubs : \A i, j \in DOMAIN delivered[x] :
    /\ ~delivered[x][i].live => delivered[x][i].sequence > sloc[x].fromSequence
    /\ (i < j /\ ~delivered[x][i].live /\ ~delivered[x][j].live)
         => delivered[x][i].sequence < delivered[x][j].sequence
    /\ i < j => ~(delivered[x][i].live /\ ~delivered[x][j].live)

\* C16: when a handle has completed N writes on the stream it created,
\* getChunks(streamId, 0) returns N chunks with sequences 1..N in ascending
\* order carrying the written data in write order, getChunks(streamId, k)
\* returns those with sequence k+1..N, and getChunks on an unknown stream
\* returns the empty list.
C16_GetChunksReturnsWrites ==
  wpc = "idle" =>
    IF ~streamState[StreamKey].has
    THEN \A k \in 0..MaxWrites : GetChunks(k) = <<>>
    ELSE LET N == handle.sequence
             chunks == GetChunks(0)
         IN /\ Len(chunks) = N
            /\ \A i \in 1..N : /\ chunks[i].sequence = i
                               /\ chunks[i].data = nWrites - N + i
            /\ \A k \in 0..N : GetChunks(k) = SubSeq(chunks, k + 1, N)

\* C16 witness: two writes have completed on the handle of a stream that
\* was created again after being closed
C16_Witness ==
  /\ wpc = "idle"
  /\ nCreates = 2
  /\ handle.sequence = 2
  /\ Len(GetChunks(0)) = 2
  /\ Len(GetChunks(1)) = 1

\* sequences of the chunks the state store holds for the stream
DurableSequences ==
  {streamState[ChunkKey(seq)].v.sequence :
     seq \in {q \in ChunkSeqs : streamState[ChunkKey(q)].has}}

\* C17: whenever the single writer has no createStream, write or close in
\* progress, the durable chunk sequences of the stream are exactly 1..m and
\* the chunkCount of the stored metadata is m.
C17_ChunkCountIsHighestSequence ==
  (wpc = "idle" /\ streamState[StreamKey].has) =>
    DurableSequences = 1..streamState[StreamKey].v.chunkCount

----------------------------------------------------------------------------
\* Properties of the step cache

\* p's transaction completes in this step
TransactionDone(p) == pc[p] \in {"tx_save", "tx_delete"} /\ pc'[p] = "idle"

\* C18: when createStep of a step with cacheKey K has completed,
\* getStepByCacheKey(K) returns that step; when an updateStep that changes the
\* cacheKey of a step from K (or from none) to K2 has completed,
\* getStepByCacheKey(K) returns not found and getStepByCacheKey(K2) returns
\* the step with the updated fields.
C18_CacheKeyFollowsStep ==
  [][\A p \in Procs, K \in CacheKeys \cup {NoCacheKey}, K2 \in CacheKeys :
       /\ (TransactionDone(p) /\ loc[p].op = "createStep"
             /\ loc[p].step.cacheKey = K2)
            => \E step \in {loc[p].step} : GetStepByCacheKey(K2)' = Val(step)
       /\ (TransactionDone(p) /\ loc[p].op = "updateStep"
             /\ loc[p].existing.cacheKey = K
             /\ loc[p].updates.cacheKey = K2
             /\ K2 # K)
            => \E existing \in {loc[p].existing}, updates \in {loc[p].updates} :
                 /\ K # NoCacheKey => GetStepByCacheKey(K)' = Absent
                 /\ GetStepByCacheKey(K2)' =
                      Val([id |-> existing.id,
                           runId |-> existing.runId,
                           status |-> IF updates.status # NoStatus
                                      THEN updates.status
                                      ELSE existing.status,
                           cacheKey |-> K2])]_vars

\* C18 witness: updateStep of a step created with cacheKey k1 names cacheKey
\* k2 and status completed; its save has put the updated step behind k2 and
\* the delete of the k1 mapping is the one operation left
C18_Witness ==
  /\ pc["p1"] = "tx_delete"
  /\ loc["p1"].op = "updateStep"
  /\ loc["p1"].existing =
       [id |-> "s1", runId |-> "r1", status |-> "pending", cacheKey |-> "k1"]
  /\ loc["p1"].updates = [cacheKey |-> "k2", status |-> "completed"]
  /\ loc["p1"].operations = <<Delete(CacheKey("k1"))>>
  /\ GetStepByCacheKey("k2") =
       Val([id |-> "s1", runId |-> "r1", status |-> "completed", cacheKey |-> "k2"])

----------------------------------------------------------------------------
\* Properties of the run listing

Limits == 1..MaxLimit
RunStatuses == {"pending", "completed"}

\* the number of items of a list of runs that have the id r
Occurrences(runs, r) == Cardinality({i \in DOMAIN runs : runs[i].id = r})

\* C19: when createRun(r) has completed, getRun(r.id) returns a record equal
\* to r; and between calls, every run that has been created (and not deleted)
\* appears exactly once in the pages of the unfiltered listRuns taken together,
\* following nextCursor from the first page, for every limit >= 1.
C19_CreatedRunListedOnce ==
  /\ [](StoreQuiet =>
          \A r \in RunIds : GetRun(r).has =>
            \A limit \in Limits :
              Occurrences(PagesFrom(limit, Undefined, NoStatus), r) = 1)
  /\ [][\A p \in Procs, r \in RunIds :
          (pc[p] = "createRun_init" /\ loc[p].run = r /\ pc'[p] = "idle")
            => GetRun(r)' = Val([id |-> r, status |-> "pending"])]_vars

\* C19 witness: two runs are listed on two pages of one run each
C19_Witness ==
  /\ StoreQuiet
  /\ GetRunsIndex = <<"r1", "r2">>
  /\ ListRuns(1, Undefined, NoStatus) =
       [items |-> <<GetRun("r1").v>>, nextCursor |-> CursorString(1), totalCount |-> 2]
  /\ ListRuns(1, CursorString(1), NoStatus) =
       [items |-> <<GetRun("r2").v>>, nextCursor |-> Undefined, totalCount |-> 2]

\* C20: between calls, for every limit, cursor and status filter, every run
\* listRuns returns has its id at one of the index positions
\* [cursor, cursor + limit), and nextCursor is cursor + limit exactly when
\* cursor + limit is less than the index length (and is absent otherwise).
C20_FilterWithinWindow ==
  StoreQuiet =>
    \A limit \in Limits, cursor \in 0..Len(GetRunsIndex), status \in RunStatuses :
      LET page == ListRuns(limit, CursorString(cursor), status)
      IN /\ \A i \in DOMAIN page.items :
              \E j \in (cursor + 1)..Min(cursor + limit, Len(GetRunsIndex)) :
                GetRunsIndex[j] = page.items[i].id
         /\ page.nextCursor =
              IF cursor + limit < Len(GetRunsIndex)
              THEN CursorString(cursor + limit) ELSE Undefined

----------------------------------------------------------------------------
\* Properties of run deletion and run updates

\* something of run r is in the store
RunRemains(r) ==
  \/ store[RunKey(r)].has
  \/ \E s \in StepIds : store[StepKey(r, s)].has
  \/ \E k \in CacheKeys : store[CacheKey(k)].has /\ store[CacheKey(k)].v.runId = r
  \/ \E e \in EventSeqs : store[EventKey(r, e)].has
  \/ store[StepsIndexKey(r)].has
  \/ store[EventsIndexKey(r)].has
  \/ store[EventCounterKey(r)].has
  \/ Includes(GetRunsIndex, r)

\* the run, step and event records and the per-run keys of run r
RecordsOf(r) ==
  [k \in {RunKey(r), StepsIndexKey(r), EventsIndexKey(r), EventCounterKey(r)}
         \cup {StepKey(r, s) : s \in StepIds}
         \cup {EventKey(r, e) : e \in EventSeqs} |-> store[k]]

\* C21: when deleteRun(id) completes, nothing of the run is left in the store
\* (run record, step records, cache mappings to its steps, event records, the
\* three per-run keys, the entry of the runs index), and no step of deleteRun
\* changes a record of another run.
C21_DeleteRunLeavesNothing ==
  [][\A p \in Procs, r \in RunIds :
       (loc[p].op = "deleteRun" /\ loc[p].run = r)
         => /\ TransactionDone(p) => ~RunRemains(r)'
            /\ \A o \in RunIds \ {r} : RecordsOf(o)' = RecordsOf(o)]_vars

TerminalStatuses == {"completed", "failed", "cancelled"}

\* the moves of Run.status along pending -> running -> terminal
StatusMoves ==
  ({"pending"} \X ({"running"} \cup TerminalStatuses))
  \cup ({"running"} \X TerminalStatuses)

\* C22: the save of an updateRun call or of an events.create call leaves the
\* stored status of a run as it is or moves it along
\* pending -> running -> {completed, failed, cancelled}; a stored status of
\* completed, failed or cancelled is not changed by it.
C22_RunStatusMovesForward ==
  [][\A p \in Procs, r \in RunIds :
       (pc[p] = "updateRun_save" /\ loc[p].run = r /\ GetRun(r).has)
         => \E before \in {GetRun(r).v.status} :
              \/ GetRun(r)'.v.status = before
              \/ <<before, GetRun(r)'.v.status>> \in StatusMoves]_vars

\* C23: the record updateRun writes back for an existing run keeps the value
\* of every field the update does not name, has the new value of every field
\* the update names (updatedAt aside), and has an updatedAt that is greater
\* than or equal to the previous updatedAt.
C23_UpdateRunKeepsOtherFields ==
  [][\A p \in Procs, r \in RunIds :
       (pc[p] = "updateRun_save" /\ loc[p].op = "updateRun" /\ loc[p].run = r)
         => \E before \in {GetRun(r).v}, updates \in {loc[p].updates} :
              /\ GetRun(r)'.has
              /\ DOMAIN GetRun(r)'.v = DOMAIN before \cup DOMAIN updates
                                         \cup {"updatedAt"}
              /\ \A f \in DOMAIN before \ (DOMAIN updates \cup {"updatedAt"}) :
                   GetRun(r)'.v[f] = before[f]
              /\ \A f \in DOMAIN updates \ {"updatedAt"} :
                   GetRun(r)'.v[f] = updates[f]
              /\ "updatedAt" \in DOMAIN before
                   => IsoLeq(before.updatedAt, GetRun(r)'.v.updatedAt)]_vars

\* C23 witness: a run created at time 0 was given an output one tick later;
\* its other fields are as created and updatedAt is the later time
C23_Witness ==
  /\ StoreQuiet
  /\ GetRun("r1") =
       Val([id |-> "r1", workflowId |-> "w1", status |-> "pending", input |-> "i1",
            output |-> "o1", createdAt |-> ToISOString(0),
            updatedAt |-> ToISOString(TickMs)])

\* the record an update call of p is for, as the call has just read it
UpdateTarget(p) ==
  CASE loc[p].op = "updateRun" -> GetRun(loc[p].run)
    [] loc[p].op = "updateStep" -> store[StepKey(loc[p].run, loc[p].stepId)]
    [] loc[p].op = "updateHook" -> store[HookKey(loc[p].token)]

\* the not-found error of an update call of p
NotFoundError(p) ==
  CASE loc[p].op = "updateRun" -> <<"Run not found", loc[p].run>>
    [] loc[p].op = "updateStep" -> <<"Step not found", loc[p].run, loc[p].stepId>>
    [] loc[p].op = "updateHook" -> <<"Hook not found", loc[p].token>>

\* C24: updateRun, updateStep and updateHook called for an id or token that
\* has no stored record reject with the not-found error that names the
\* identifier, and from the call to its rejection the caller's steps leave the
\* store as it is (nothing is written, deleted or created).
C24_UpdateOfMissingRecordThrows ==
  [][\A p \in Procs :
       /\ (pc[p] = "idle" /\ pc'[p] # "idle"
             /\ loc'[p].op \in {"updateRun", "updateStep", "updateHook"}
             /\ ~UpdateTarget(p)'.has)
            => /\ pc'[p] = "throw"
               /\ loc'[p].error = NotFoundError(p)'
               /\ store' = store
       /\ (pc[p] = "throw" /\ pc'[p] # "throw")
            => pc'[p] = "idle" /\ store' = store]_vars

\* C24 witness: updateStep of a step that does not exist in an existing run is
\* about to reject
C24_Witness ==
  /\ pc["p1"] = "throw"
  /\ loc["p1"].error = <<"Step not found", "r1", "s1">>
  /\ GetRun("r1").has
  /\ ~store[StepKey("r1", "s1")].has

----------------------------------------------------------------------------
\* Properties of the queue subscription

\* C25: when a handler throws, the delivery callback turns the failure into
\* one publish, a requeue to the queue topic or a message to the DLQ topic,
\* and takes the message out of the processing set, so that the subscription
\* can take later messages; the exception goes no further.
C25_HandlerThrowBecomesRequeueOrDlq ==
  [][\A c \in Consumers : \A message \in BagToSet(inProgress[c]) :
       HandlerThrow(c, message) =>
         /\ \/ stats'[message.id].requeued = stats[message.id].requeued + 1
            \/ stats'[message.id].dlq = stats[message.id].dlq + 1
         /\ InProgressFor(c, message.id)' = 0 =>
              message.id \notin subs'[c].processing
    ]_vars

\* C26: once unsubscribe() of a subscription has returned, isActive() of that
\* subscription is false, and no handler is invoked while the subscription is
\* out of the dispatch table: neither for a message the bus delivers
\* afterwards nor for one whose local re-check timer was set before.
C26_NoHandlerAfterUnsubscribe ==
  /\ [](\A c \in Consumers : \A h \in 1..MaxSubscribes :
          (h < subs[c].handler \/ (h = subs[c].handler /\ ~subs[c].exists))
            => ~IsActive(c, h))
  /\ [][\A c \in Consumers :
          (\E id \in MsgIds : stats'[id].invoked > stats[id].invoked
                              /\ InProgressFor(c, id)' > InProgressFor(c, id))
            => subs[c].exists /\ subs[c].active]_vars

\* C26 witness: the re-check timer of a message rescheduled before the
\* unsubscribe is due, the message is visible, and the subscription is gone
C26_Witness ==
  /\ ~subs[Producer].exists
  /\ subs[Producer].handler = 1
  /\ \E timer \in BagToSet(timers[Producer]) :
       timer.fireAt <= now /\ timer.message.visibleAt <= now
  /\ inProgress[Producer] = EmptyBag

----------------------------------------------------------------------------
\* deleteStream, and the calls of a writer on a handle it has closed

\* deleteStream: await getStreamMetadata
DeleteStream ==
  /\ wpc = "idle"
  /\ wpc' = "deleteStream_get"
  /\ UNCHANGED <<streamState, handle, wloc, nWrites, nCreates, streamTopic,
                 nStreamDup, thrown, closeLog, subscriberVars>>

\* deleteStream: the metadata read returns; an unknown stream is left alone,
\* otherwise the chunk loop starts at sequence 1
DeleteStreamGet ==
  /\ wpc = "deleteStream_get"
  /\ IF ~streamState[StreamKey].has
     THEN /\ wpc' = "idle"
          /\ thrown' = NoError
          /\ UNCHANGED wloc
     ELSE /\ wloc' = [wloc EXCEPT !.metadata = streamState[StreamKey],
                                  !.seq = 1]
          /\ wpc' = "deleteStream_chunks"
          /\ UNCHANGED thrown
  /\ UNCHANGED <<streamState, handle, nWrites, nCreates, streamTopic,
                 nStreamDup, closeLog, subscriberVars>>

\* deleteStream: delete the chunk of one sequence up to metadata.chunkCount
DeleteStreamChunk ==
  /\ wpc = "deleteStream_chunks"
  /\ wloc.seq <= wloc.metadata.v.chunkCount
  /\ streamState' = [streamState EXCEPT ![ChunkKey(wloc.seq)] = Absent]
  /\ wloc' = [wloc EXCEPT !.seq = @ + 1]
  /\ UNCHANGED <<handle, wpc, nWrites, nCreates, streamTopic, nStreamDup,
                 thrown, closeLog, subscriberVars>>

\* deleteStream: after the loop, delete the metadata
DeleteStreamMetadata ==
  /\ wpc = "deleteStream_chunks"
  /\ wloc.seq > wloc.metadata.v.chunkCount
  /\ streamState' = [streamState EXCEPT ![StreamKey] = Absent]
  /\ wpc' = "deleteStream_counter"
  /\ UNCHANGED <<handle, wloc, nWrites, nCreates, streamTopic, nStreamDup,
                 thrown, closeLog, subscriberVars>>

\* deleteStream: delete the counter, then drop the stream from the local maps
DeleteStreamCounter ==
  /\ wpc = "deleteStream_counter"
  /\ streamState' = [streamState EXCEPT ![CounterKey] = Absent]
  /\ handle' = [handle EXCEPT !.mapped = FALSE]
  /\ subscriptions' = <<>>
  /\ wloc' = NoWriterLocals
  /\ thrown' = NoError
  /\ wpc' = "idle"
  /\ UNCHANGED <<nWrites, nCreates, streamTopic, nStreamDup, closeLog,
                 registered, streamSub, spc, sloc, delivered>>

\* one writer that also calls write and close on a handle it has closed,
\* while a call of its own is in progress or not
NextHandle ==
  /\ \/ CreateStream
     \/ CreateStreamGet
     \/ CreateStreamSave
     \/ Write
     \/ WriteSave
     \/ WriteGet
     \/ WriteSaveMetadata
     \/ WritePublish
     \/ Close
     \/ CloseGet
     \/ CloseSave
     \/ ClosePublish
  /\ UNCHANGED <<storeVars, queueVars, closer>>

SpecHandle == Init /\ [][NextHandle]_vars

\* the same writer, which also deletes the stream
NextDelete ==
  /\ \/ CreateStream
     \/ CreateStreamGet
     \/ CreateStreamSave
     \/ Write
     \/ WriteSave
     \/ WriteGet
     \/ WriteSaveMetadata
     \/ WritePublish
     \/ Close
     \/ CloseGet
     \/ CloseSave
     \/ ClosePublish
     \/ DeleteStream
     \/ DeleteStreamGet
     \/ DeleteStreamChunk
     \/ DeleteStreamMetadata
     \/ DeleteStreamCounter
  /\ UNCHANGED <<storeVars, queueVars, closer>>

SpecDelete == Init /\ [][NextDelete]_vars

----------------------------------------------------------------------------
\* Properties of createStream, of a closed handle and of deleteStream

\* the step in which the metadata read of createStream returns
CreateStreamChecks == wpc = "createStream_get" /\ wpc' # wpc

\* the step in which createStream returns the handle
CreateStreamReturns == wpc = "createStream_save" /\ wpc' = "idle"

\* C27: createStream throws the already-open error and leaves the store and
\* the caller's handle as they are when the metadata it reads has
\* isOpen = true; when it reads no metadata or metadata of a closed stream it
\* goes on to save metadata with isOpen = true and chunkCount = 0 and a
\* counter of 0, and returns an open handle with sequence 0, whose first write
\* builds the chunk of sequence 1.
C27_CreateStreamOpenOrFresh ==
  [][/\ CreateStreamChecks =>
          (IF streamState[StreamKey].has /\ streamState[StreamKey].v.isOpen
           THEN /\ wpc' = "idle"
                /\ thrown' = AlreadyOpen
                /\ UNCHANGED <<streamState, handle, streamTopic>>
           ELSE /\ wpc' = "createStream_save"
                /\ UNCHANGED <<streamState, thrown>>)
     /\ CreateStreamReturns =>
          (/\ streamState'[StreamKey] = Val([isOpen |-> TRUE, chunkCount |-> 0])
           /\ streamState'[CounterKey] = Val(0)
           /\ \A seq \in ChunkSeqs :
                streamState'[ChunkKey(seq)] = streamState[ChunkKey(seq)]
           /\ handle'.exists /\ handle'.open /\ handle'.sequence = 0
           /\ thrown' = NoError)
     /\ (nWrites' > nWrites /\ closeLog.calls = 0 /\ handle.sequence = 0) =>
          wloc'.chunk = Val([sequence |-> 1, data |-> nWrites'])]_vars

\* createStream on the open stream has thrown, after a write on the handle
C27_Witness ==
  /\ wpc = "idle"
  /\ thrown = AlreadyOpen
  /\ nCreates = 2
  /\ handle.open
  /\ handle.sequence = 1
  /\ streamState[StreamKey] = Val([isOpen |-> TRUE, chunkCount |-> 1])
  /\ streamState[CounterKey] = Val(1)

\* C28: no write call starts persisting a chunk on a handle whose close() has
\* been called: the call that throws the stream-closed error is made on such
\* a handle and leaves the store, the handle, the topic and the calls in
\* progress as they are.
C28_WriteOnClosedHandleThrows ==
  [][/\ nWrites' # nWrites => handle.open
     /\ (thrown' = StreamClosed /\ thrown # StreamClosed) =>
          (/\ handle.exists /\ ~handle.open
           /\ UNCHANGED <<streamState, handle, streamTopic, wpc, wloc, nWrites>>)
     /\ ~handle.open =>
          (/\ handle'.sequence = handle.sequence \/ CreateStreamReturns
           /\ \A seq \in ChunkSeqs :
                \/ streamState'[ChunkKey(seq)] = streamState[ChunkKey(seq)]
                \/ wpc = "deleteStream_chunks")]_vars

\* write has thrown on the closed handle while its close is still reading the
\* metadata; the one chunk written before is what the store holds
C28_Witness ==
  /\ thrown = StreamClosed
  /\ wpc = "close_get"
  /\ handle.exists /\ ~handle.open
  /\ handle.sequence = 1
  /\ nWrites = 1
  /\ streamState[CounterKey] = Val(1)
  /\ streamState[StreamKey] = Val([isOpen |-> TRUE, chunkCount |-> 1])

CloseInProgress == wpc \in {"close_get", "close_save", "close_publish"}

\* C29: for every handle, however many close() calls are made on it, one after
\* the other or while the first is in progress, the metadata is saved as
\* closed at most once and the stream_closed signal is published at most
\* once; when close has been called and none is in progress both have
\* happened exactly once and the metadata has isOpen = false and a closedAt;
\* a second or later call changes neither the store nor the topic.
C29_CloseIsIdempotent ==
  /\ [](/\ closeLog.saves <= 1
        /\ closeLog.sentinels <= 1
        /\ (closeLog.calls >= 1 /\ ~CloseInProgress) =>
             (/\ closeLog.saves = 1
              /\ closeLog.sentinels = 1
              /\ streamState[StreamKey].has
              /\ ~streamState[StreamKey].v.isOpen
              /\ "closedAt" \in DOMAIN streamState[StreamKey].v))
  /\ [][(closeLog.calls >= 1 /\ closeLog'.calls > closeLog.calls) =>
          UNCHANGED <<streamState, streamTopic, handle, wpc, wloc>>]_vars

\* two more close() calls have returned while the first is about to publish
C29_Witness ==
  /\ wpc = "close_publish"
  /\ closeLog = [calls |-> 3, saves |-> 1, sentinels |-> 0]
  /\ ~streamState[StreamKey].v.isOpen
  /\ nCreates = 2

\* the step in which deleteStream returns
DeleteStreamReturns ==
  /\ wpc \in {"deleteStream_get", "deleteStream_counter"}
  /\ wpc' = "idle"

\* C30: when deleteStream returns, the store holds no metadata, no counter and
\* no chunk record of the stream, and getChunks returns no chunk.
C30_DeleteStreamLeavesNothing ==
  [][DeleteStreamReturns =>
       (/\ \A k \in StreamKeys : ~streamState'[k].has
        /\ GetChunks(0)' = <<>>)]_vars

----------------------------------------------------------------------------
\* Properties of the cache mappings of other steps

\* the step that p's updateStep or deleteStep is applied to, as <<runId, id>>
TargetStep(p) ==
  IF loc[p].op = "updateStep" THEN <<loc[p].run, loc[p].stepId>>
  ELSE <<loc[p].run, loc[p].step.id>>

\* the cache mapping of K points to a step that p's operation is not applied to
PointsElsewhere(p, K) ==
  /\ store[CacheKey(K)].has
  /\ IF loc[p].op = "deleteRun"
     THEN store[CacheKey(K)].v.runId # loc[p].run
     ELSE <<store[CacheKey(K)].v.runId, store[CacheKey(K)].v.stepId>> # TargetStep(p)

\* C39: no save or delete of an updateStep, deleteStep or deleteRun
\* transaction removes a cache mapping that points to a step the operation is
\* not applied to (for deleteRun: a step of another run); the mapping stays as
\* it is, unless it is the key an updateStep moves its own step to.
C39_OtherStepsMappingStays ==
  [][\A p \in Procs, K \in CacheKeys :
       (/\ pc[p] \in {"tx_save", "tx_delete"}
        /\ loc[p].op \in {"updateStep", "deleteStep", "deleteRun"}
        /\ PointsElsewhere(p, K)
        /\ ~(loc[p].op = "updateStep" /\ loc[p].updates.cacheKey = K))
         => store'[CacheKey(K)] = store[CacheKey(K)]]_vars

\* C38: between calls, for every status filter and every limit, the pages of
\* listRuns taken together, following nextCursor from the first page, hold
\* every run of the runs index that has the status exactly once and no other
\* run.
C38_FilteredPagesListOnce ==
  StoreQuiet =>
    \A status \in RunStatuses, limit \in Limits, r \in RunIds :
      Occurrences(PagesFrom(limit, Undefined, status), r) =
        IF Includes(GetRunsIndex, r) /\ GetRun(r).has /\ GetRun(r).v.status = status
        THEN 1 ELSE 0

----------------------------------------------------------------------------
\* DaprStorage.initialize

\* initialize: an initialized instance returns at once; otherwise await the
\* read of the runs index
Initialize(p) ==
  /\ CanStart(p)
  /\ nOps' = nOps + 1
  /\ IF initialized[p]
     THEN UNCHANGED <<pc, loc>>
     ELSE /\ pc' = [pc EXCEPT ![p] = "initialize_get"]
          /\ loc' = [loc EXCEPT ![p] = [op |-> "initialize"]]
  /\ UNCHANGED <<store, initialized>>

\* initialize: the read returns; without an index the save of [] is awaited
InitializeGet(p) ==
  /\ pc[p] = "initialize_get"
  /\ IF ~store[RunsIndexKey].has
     THEN /\ pc' = [pc EXCEPT ![p] = "initialize_save"]
          /\ UNCHANGED <<loc, initialized>>
     ELSE /\ initialized' = [initialized EXCEPT ![p] = TRUE]
          /\ Finish(p)
  /\ UNCHANGED <<store, nOps>>

\* initialize: save the empty runs index, then set the flag
InitializeSave(p) ==
  /\ pc[p] = "initialize_save"
  /\ store' = StateSave(store, <<[key |-> RunsIndexKey, value |-> <<>>]>>)
  /\ initialized' = [initialized EXCEPT ![p] = TRUE]
  /\ Finish(p)
  /\ UNCHANGED nOps

\* two processes, each with its own DaprStorage, initializing and creating
\* runs on the shared store
NextInitialize ==
  /\ \E p \in Procs :
       \/ Initialize(p)
       \/ InitializeGet(p)
       \/ InitializeSave(p)
       \/ \E r \in RunIds : CreateRun(p, r) /\ UNCHANGED initialized
       \/ TxSave(p) /\ UNCHANGED initialized
       \/ CreateRunInit(p) /\ UNCHANGED initialized
  /\ UNCHANGED <<returned, queueVars, streamVars>>

SpecInitialize == Init /\ [][NextInitialize]_vars

\* C32: initialize saves the runs index only as [] and only when the store
\* holds none, so no step of an initialize call changes a runs index that
\* exists, also when a createRun of another process has written it since the
\* call read the store; it reads the index only while the instance is not
\* initialized, and the instance is initialized when the call has returned
\* and stays so.
C32_InitializeKeepsRunsIndex ==
  [][\A p \in Procs :
       /\ (loc[p].op = "initialize" /\ pc'[p] # pc[p]) =>
            (/\ store[RunsIndexKey].has => store'[RunsIndexKey] = store[RunsIndexKey]
             /\ ~store[RunsIndexKey].has =>
                  store'[RunsIndexKey] \in {Absent, Val(<<>>)}
             /\ pc'[p] = "idle" => initialized'[p])
       /\ (pc[p] = "idle" /\ pc'[p] = "initialize_get") => ~initialized[p]
       /\ initialized[p] => initialized'[p]]_vars

----------------------------------------------------------------------------
\* explicit ack and nack calls made by a handler for the message it was given

\* a delivery whose handler has already called ack or nack for its message
Settled(message) ==
  [f \in DOMAIN message \cup {"settled"} |->
     IF f = "settled" THEN TRUE ELSE message[f]]

IsSettled(message) == "settled" \in DOMAIN message

\* the handler awaits its ack and nack calls: its next step comes after the
\* publish of its nack has resolved
CallsAwaited(c, message) ==
  IsSettled(message) => ~BagIn(message.id, nacking[c])

\* the handler calls ack(queueName, message.id) and goes on
AckInHandler(c, message) ==
  /\ BagIn(message, inProgress[c])
  /\ CallsAwaited(c, message)
  /\ inProgress' = [inProgress EXCEPT
                      ![c] = BagAdd(BagRemove(@, message), Settled(message))]
  /\ Ack(c, message.id)
  /\ UNCHANGED <<now, qTopic, dlqTopic, timers, nacking, sending, nSent, nDup,
                 stats, dropped>>

\* the handler calls nack(queueName, message.id, requeue) and goes on
NackInHandler(c, message, requeue) ==
  /\ BagIn(message, inProgress[c])
  /\ CallsAwaited(c, message)
  /\ inProgress' = [inProgress EXCEPT
                      ![c] = BagAdd(BagRemove(@, message), Settled(message))]
  /\ Nack(c, message.id, requeue)
  /\ UNCHANGED <<now, timers, sending, nSent, nDup>>

\* one instance and one message; the handler may call ack and nack itself
\* before it returns or throws, and the bus delivers dupLimit duplicates
TerminalStep(dupLimit) ==
  /\ \/ \E d \in Delays, m \in MaxAttemptsChoices :
          nSent = 0 /\ Send(Producer, d, m)
     \/ \E message \in BagToSet(sending[Producer]) : SendStore(Producer, message)
     \/ \E k \in ConcurrencyChoices : Subscribe(Producer, k)
     \/ \E message \in qTopic, duplicate \in BOOLEAN :
          (duplicate => nDup < dupLimit) /\ Deliver(Producer, message, duplicate)
     \/ \E timer \in BagToSet(timers[Producer]) : TimerFire(Producer, timer)
     \/ \E message \in BagToSet(inProgress[Producer]) :
          AckInHandler(Producer, message)
     \/ \E message \in BagToSet(inProgress[Producer]), requeue \in BOOLEAN :
          NackInHandler(Producer, message, requeue)
     \/ \E message \in BagToSet(inProgress[Producer]) :
          CallsAwaited(Producer, message) /\ HandlerReturn(Producer, message)
     \/ \E message \in BagToSet(inProgress[Producer]) :
          CallsAwaited(Producer, message) /\ HandlerThrow(Producer, message)
     \/ \E id \in BagToSet(nacking[Producer]) : NackDelete(Producer, id)
     \/ Tick
  /\ UNCHANGED <<storeVars, streamVars>>

\* the bus delivers every published message once
NextTerminal == TerminalStep(0)

SpecTerminal == Init /\ [][NextTerminal]_vars

\* a step in which nack publishes message id to the queue topic or to the
\* dead-letter topic
NackPublishes(id) ==
  stats'[id].requeued + stats'[id].dlq > stats[id].requeued + stats[id].dlq

\* the step is the first ack or nack of one delivery of message id
FirstOutcome(c, id) ==
  \E message \in BagToSet(inProgress[c]) :
    /\ message.id = id
    /\ ~IsSettled(message)
    /\ \/ inProgress'[c] = BagRemove(inProgress[c], message)
       \/ inProgress'[c] = BagAdd(BagRemove(inProgress[c], message),
                                  Settled(message))

\* C37: each delivery of a queue message has at most one terminal outcome:
\* a nack publishes only as the first ack or nack of a delivery (after an
\* ack or a nack of that delivery a later nack publishes nothing), and only
\* for an id that is tracked in the message store
C37_OneTerminalOutcome ==
  [][\A id \in MsgIds :
       NackPublishes(id) =>
         (/\ messageStore[Producer][id].has
          /\ FirstOutcome(Producer, id))]_vars

----------------------------------------------------------------------------
\* two subscriptions to one queue in one DaprQueue instance

\* subscribe for a queue the instance already has a subscription to: the map
\* entry under the same subscriptionKey is replaced
SubscribeAgain(c, concurrency) ==
  /\ subs[c].exists
  /\ subs[c].handler < MaxSubscribes
  /\ subs' = [subs EXCEPT ![c] =
                [exists |-> TRUE, active |-> TRUE, concurrency |-> concurrency,
                 autoAck |-> TRUE, processing |-> {}, registered |-> TRUE,
                 handler |-> subs[c].handler + 1,
                 handleActive |-> [subs[c].handleActive EXCEPT
                                     ![subs[c].handler + 1] = TRUE]]]
  /\ UNCHANGED <<now, qTopic, dlqTopic, messageStore, timers, inProgress,
                 nacking, sending, nSent, nDup, stats, dropped>>

\* unsubscribe() of the Subscription returned by the subscribe call numbered
\* h: its own internalSub is made inactive and the entry under the
\* subscriptionKey is deleted
UnsubscribeHandle(c, h) ==
  /\ h \in 1..subs[c].handler
  /\ subs' = [subs EXCEPT
                ![c].handleActive[h] = FALSE,
                ![c].exists = FALSE,
                ![c].active = IF h = subs[c].handler THEN FALSE ELSE @]
  /\ UNCHANGED <<now, qTopic, dlqTopic, messageStore, timers, inProgress,
                 nacking, sending, nSent, nDup, stats, dropped>>

\* one instance that subscribes to its queue twice and may unsubscribe either
\* handle
NextResubscribe ==
  /\ \/ \E d \in Delays, m \in MaxAttemptsChoices :
          nSent = 0 /\ Send(Producer, d, m)
     \/ \E message \in BagToSet(sending[Producer]) : SendStore(Producer, message)
     \/ \E k \in ConcurrencyChoices : Subscribe(Producer, k)
     \/ \E k \in ConcurrencyChoices : SubscribeAgain(Producer, k)
     \/ \E h \in 1..MaxSubscribes : UnsubscribeHandle(Producer, h)
     \/ \E message \in qTopic : Deliver(Producer, message, FALSE)
     \/ \E timer \in BagToSet(timers[Producer]) : TimerFire(Producer, timer)
     \/ \E message \in BagToSet(inProgress[Producer]) :
          HandlerReturn(Producer, message)
     \/ \E message \in BagToSet(inProgress[Producer]) :
          HandlerThrow(Producer, message)
     \/ \E id \in BagToSet(nacking[Producer]) : NackDelete(Producer, id)
     \/ Tick
  /\ UNCHANGED <<storeVars, streamVars>>

SpecResubscribe == Init /\ [][NextResubscribe]_vars

\* the bus hands a visible message to the instance's topic callback
DeliversVisible(message) ==
  /\ message \in qTopic
  /\ message \notin qTopic'
  /\ ~NotYetVisible(message, now)
  /\ now' = now

\* C36: unsubscribing one subscription handle does not affect another: the
\* unsubscribe() of the handle of an earlier subscribe call leaves isActive()
\* of the later call's handle as it was, and while the later handle is active
\* and no message is being processed, the handler is invoked for a visible
\* message arriving on the queue.
C36_OtherHandleUnaffected ==
  [][/\ \A h \in 1..MaxSubscribes :
          (/\ h < subs[Producer].handler
           /\ subs'[Producer].handleActive[h] # subs[Producer].handleActive[h])
            => IsActive(Producer, subs[Producer].handler)'
                 = IsActive(Producer, subs[Producer].handler)
     /\ \A message \in qTopic :
          (/\ DeliversVisible(message)
           /\ subs[Producer].handler > 0
           /\ IsActive(Producer, subs[Producer].handler)
           /\ inProgress[Producer] = EmptyBag)
            => stats'[message.id].invoked = stats[message.id].invoked + 1
    ]_vars

----------------------------------------------------------------------------
\* delayed messages and the re-check loop of handleMessage

\* delayMs values: none, and one beyond the 60 s cap of a re-check
LongDelays == {0, RecheckCapMs + TickMs}

DelayedSend == \E d \in LongDelays, m \in MaxAttemptsChoices :
                 nSent < LoadMsgs /\ Send(Producer, d, m)
DelayedSendStore == \E message \in BagToSet(sending[Producer]) :
                      SendStore(Producer, message)
DelayedSubscribe == \E k \in ConcurrencyChoices : Subscribe(Producer, k)
DelayedDeliver == \E message \in qTopic : Deliver(Producer, message, FALSE)
DelayedTimerFire == \E timer \in BagToSet(timers[Producer]) :
                      TimerFire(Producer, timer)
DelayedHandlerSettles ==
  \E message \in BagToSet(inProgress[Producer]) :
    HandlerReturn(Producer, message) \/ HandlerThrow(Producer, message)
DelayedNackDelete == \E id \in BagToSet(nacking[Producer]) :
                       NackDelete(Producer, id)

\* one instance whose subscription stays active, and two messages
NextDelayed ==
  /\ \/ DelayedSend
     \/ DelayedSendStore
     \/ DelayedSubscribe
     \/ DelayedDeliver
     \/ DelayedTimerFire
     \/ DelayedHandlerSettles
     \/ DelayedNackDelete
     \/ Advance
  /\ UNCHANGED <<storeVars, streamVars>>

\* the bus delivers what is published, setTimeout callbacks run when due,
\* awaited publishes resolve, handlers settle and time passes
SpecDelayed ==
  /\ Init
  /\ [][NextDelayed]_vars
  /\ WF_vars(DelayedSendStore /\ UNCHANGED <<storeVars, streamVars>>)
  /\ WF_vars(DelayedDeliver /\ UNCHANGED <<storeVars, streamVars>>)
  /\ WF_vars(DelayedTimerFire /\ UNCHANGED <<storeVars, streamVars>>)
  /\ WF_vars(DelayedHandlerSettles /\ UNCHANGED <<storeVars, streamVars>>)
  /\ WF_vars(DelayedNackDelete /\ UNCHANGED <<storeVars, streamVars>>)
  /\ WF_vars(Advance /\ UNCHANGED <<storeVars, streamVars>>)

\* a re-check of message id, published with the given attempts, is scheduled
\* at the active subscription
RecheckScheduled(id, attempts) ==
  /\ subs[Producer].exists /\ subs[Producer].active
  /\ \E timer \in BagToSet(timers[Producer]) :
       timer.message.id = id /\ timer.message.attempts = attempts

\* C33: a message that reaches the active subscription before its visibleAt
\* is eventually passed to the handler or dead-lettered, for delays beyond
\* the 60 s re-check cap too, and the re-check loop terminates.
C33_DelayedEventuallyHandled ==
  /\ \A id \in MsgIds : \A attempts \in 0..1 :
       RecheckScheduled(id, attempts)
         ~> (stats[id].invoked > attempts \/ stats[id].dlq > 0)
  /\ <>[](timers[Producer] = EmptyBag)

----------------------------------------------------------------------------
\* DaprStreamer.shutdown

\* shutdown is running or has returned
ShuttingDown == wloc.shutdown \/ wpc \in {"shutdown_clear", "shutdown_done"}

\* subscribe call x has made its internalSub
SubscriptionCreated(x) == spc[x] \notin {"idle", "subscribe_get"}

\* shutdown, called while no subscribe call is awaiting its first read: the
\* handle in the streams map is closed if it is open
Shutdown ==
  /\ wpc = "idle"
  /\ \A x \in StreamSubs : spc[x] # "subscribe_get"
  /\ IF handle.mapped /\ handle.open
     THEN /\ handle' = [handle EXCEPT !.open = FALSE]
          /\ closeLog' = [closeLog EXCEPT !.calls = @ + 1]
          /\ wloc' = [NoWriterLocals EXCEPT !.shutdown = TRUE]
          /\ wpc' = "close_get"
     ELSE /\ wpc' = "shutdown_clear"
          /\ UNCHANGED <<handle, closeLog, wloc>>
  /\ UNCHANGED <<streamState, nWrites, nCreates, streamTopic, nStreamDup,
                 thrown, subscriberVars>>

\* shutdown: clear the streams map, deactivate the subscriptions in the
\* subscriptions map and clear it
ShutdownClear ==
  /\ wpc = "shutdown_clear"
  /\ handle' = [handle EXCEPT !.mapped = FALSE]
  /\ streamSub' = [x \in StreamSubs |->
                     IF Includes(subscriptions, x)
                     THEN [streamSub[x] EXCEPT !.active = FALSE]
                     ELSE streamSub[x]]
  /\ subscriptions' = <<>>
  /\ wpc' = "shutdown_done"
  /\ UNCHANGED <<streamState, wloc, nWrites, nCreates, streamTopic, nStreamDup,
                 thrown, closeLog, registered, spc, sloc, delivered>>

\* the subscriber of the shutdown specifications
ShutdownSubs == {"a"}

\* one writer that also deletes the stream and shuts the streamer down, one
\* subscriber and the bus; no call is started once shutdown has been called
NextShutdown ==
  /\ \/ CreateStream
     \/ CreateStreamGet
     \/ CreateStreamSave
     \/ handle.open /\ Write
     \/ WriteSave
     \/ WriteGet
     \/ WriteSaveMetadata
     \/ WritePublish
     \/ handle.open /\ Close
     \/ CloseGet
     \/ CloseSave
     \/ ClosePublish
     \/ DeleteStream
     \/ DeleteStreamGet
     \/ DeleteStreamChunk
     \/ DeleteStreamMetadata
     \/ DeleteStreamCounter
     \/ Shutdown
     \/ ShutdownClear
     \/ \E x \in ShutdownSubs, fromSequence \in FromSequences, liveOnly \in BOOLEAN :
          ~ShuttingDown /\ StreamSubscribe(x, fromSequence, liveOnly)
     \/ \E x \in ShutdownSubs : SubscribeGet(x)
     \/ \E x \in ShutdownSubs : GetChunksMetadata(x)
     \/ \E x \in ShutdownSubs : GetChunksGet(x)
     \/ \E x \in ShutdownSubs : SubscribeRegister(x)
     \/ \E x \in ShutdownSubs : ~ShuttingDown /\ StreamUnsubscribe(x)
     \/ \E data \in streamTopic : StreamDeliver(data, FALSE)
  /\ UNCHANGED <<storeVars, queueVars, closer>>

SpecShutdown == Init /\ [][NextShutdown]_vars

\* C31: after shutdown() has completed, the handle created by the streamer
\* is not open and the stored metadata is marked closed, every subscription
\* made by the streamer is inactive, and no handler is called any more.
C31_ShutdownClosesEverything ==
  /\ [](wpc = "shutdown_done" =>
          /\ handle.exists => ~handle.open
          /\ (handle.exists /\ streamState[StreamKey].has)
               => ~streamState[StreamKey].v.isOpen
          /\ \A x \in StreamSubs : SubscriptionCreated(x) => ~streamSub[x].active)
  /\ [][wpc = "shutdown_done" => delivered' = delivered]_vars

----------------------------------------------------------------------------
\* close() called while a write() on the same handle is in progress

WriteInProgress ==
  wpc \in {"write_save", "write_get", "write_saveMetadata", "write_publish"}

\* close on the open handle while its write awaits: the handle is marked
\* closed, then close awaits the metadata read
CloseDuringWrite ==
  /\ handle.exists /\ handle.open
  /\ WriteInProgress
  /\ closer.pc = "idle"
  /\ handle' = [handle EXCEPT !.open = FALSE]
  /\ closeLog' = [closeLog EXCEPT !.calls = @ + 1]
  /\ closer' = [closer EXCEPT !.pc = "close_get"]
  /\ UNCHANGED <<streamState, wpc, wloc, nWrites, nCreates, streamTopic,
                 nStreamDup, thrown, subscriberVars>>

\* that close: read the stream metadata
CloserGet ==
  /\ closer.pc = "close_get"
  /\ closer' = [pc |-> IF streamState[StreamKey].has THEN "close_save"
                       ELSE "close_publish",
                metadata |-> streamState[StreamKey]]
  /\ UNCHANGED <<streamState, writerVars, streamTopic, nStreamDup,
                 subscriberVars>>

\* that close: save the metadata marked closed
CloserSave ==
  /\ closer.pc = "close_save"
  /\ streamState' = [streamState EXCEPT ![StreamKey] =
                       Val(ClosedMetadata(closer.metadata.v, now))]
  /\ closeLog' = [closeLog EXCEPT !.saves = @ + 1]
  /\ closer' = [closer EXCEPT !.pc = "close_publish"]
  /\ UNCHANGED <<handle, wpc, wloc, nWrites, nCreates, streamTopic, nStreamDup,
                 thrown, subscriberVars>>

\* that close: publish the stream_closed signal and return
CloserPublish ==
  /\ closer.pc = "close_publish"
  /\ Publish([type |-> "stream_closed", sequence |-> 0, data |-> nCreates])
  /\ closeLog' = [closeLog EXCEPT !.sentinels = @ + 1]
  /\ closer' = NoCloser
  /\ UNCHANGED <<streamState, handle, wpc, wloc, nWrites, nCreates, nStreamDup,
                 thrown, subscriberVars>>

\* one writer whose close may be called while its write is in progress
NextOverlap ==
  \/ /\ \/ CreateStream
        \/ CreateStreamGet
        \/ CreateStreamSave
        \/ handle.open /\ Write
        \/ WriteSave
        \/ WriteGet
        \/ WriteSaveMetadata
        \/ WritePublish
        \/ handle.open /\ Close
        \/ CloseGet
        \/ CloseSave
        \/ ClosePublish
     /\ UNCHANGED <<storeVars, queueVars, closer>>
  \/ /\ \/ CloseDuringWrite
        \/ CloserGet
        \/ CloserSave
        \/ CloserPublish
     /\ UNCHANGED <<storeVars, queueVars>>

SpecOverlap == Init /\ [][NextOverlap]_vars

\* close() has been called on the handle and has returned
CloseCompleted ==
  /\ handle.exists /\ ~handle.open
  /\ ~CloseInProgress
  /\ closer.pc = "idle"

\* C34: once close() on the handle has completed, the stored metadata has
\* isOpen = false until the next createStream, also when a write on the
\* handle was in progress while close ran; and no chunk of the handle is
\* published after its stream_closed signal.
C34_ClosedStaysClosed ==
  /\ []((CloseCompleted /\ streamState[StreamKey].has)
          => ~streamState[StreamKey].v.isOpen)
  /\ [][(wpc = "write_publish" /\ wpc' # wpc) => closeLog.sentinels = 0]_vars

----------------------------------------------------------------------------
\* a subscriber that stays active while the stream is written

GaplessSubs == {"a"}

GaplessWriter ==
  \/ CreateStream
  \/ CreateStreamGet
  \/ CreateStreamSave
  \/ handle.open /\ Write
  \/ WriteSave
  \/ WriteGet
  \/ WriteSaveMetadata
  \/ WritePublish

GaplessSubscribe ==
  \E x \in GaplessSubs, fromSequence \in FromSequences :
    StreamSubscribe(x, fromSequence, FALSE)

GaplessSubscriber ==
  \E x \in GaplessSubs :
    \/ SubscribeGet(x)
    \/ GetChunksMetadata(x)
    \/ GetChunksGet(x)
    \/ SubscribeRegister(x)

GaplessDeliver == \E data \in streamTopic : StreamDeliver(data, FALSE)

\* one writer, one subscriber that replays and never unsubscribes, and a bus
\* that delivers every message it holds once, in any order
NextGapless ==
  /\ \/ GaplessWriter
     \/ GaplessSubscribe
     \/ GaplessSubscriber
     \/ GaplessDeliver
  /\ UNCHANGED <<storeVars, queueVars, closer>>

\* awaited store and bus calls return, and the bus delivers what it holds
SpecGapless ==
  /\ Init
  /\ [][NextGapless]_vars
  /\ WF_vars(GaplessWriter /\ UNCHANGED <<storeVars, queueVars, closer>>)
  /\ WF_vars(GaplessSubscriber /\ UNCHANGED <<storeVars, queueVars, closer>>)
  /\ WF_vars(GaplessDeliver /\ UNCHANGED <<storeVars, queueVars, closer>>)

\* the bus holds the chunk with this sequence for delivery
ChunkOnBus(seq) ==
  \E data \in streamTopic : data.type = "chunk" /\ data.sequence = seq

\* the handler of subscription x has been called with the chunk
Handled(x, seq) ==
  \E i \in DOMAIN delivered[x] : delivered[x][i].sequence = seq

\* C35: a subscriber with fromSequence = k that stays active eventually has
\* its handler called with every chunk of sequence > k that the bus holds
\* for delivery, whether the chunk was written during the replay or is
\* delivered out of sequence order.
C35_EveryChunkHandled ==
  \A x \in GaplessSubs : \A seq \in ChunkSeqs :
    (/\ SubscriptionCreated(x)
     /\ streamSub[x].active
     /\ seq > sloc[x].fromSequence
     /\ ChunkOnBus(seq))
      ~> Handled(x, seq)

====
